---- MODULE Spec2Model ----
(***************************************************************************)
(* The streaming bridge of backend/analyzer.py: the callback handler that  *)
(* turns the agent's synchronous notifications into queued events, the     *)
(* blocking agent runner on the shared thread pool, and the event pump     *)
(* (run_analysis / run_chat) that drains the per-run queue into SSE        *)
(* frames.                                                                 *)
(*                                                                         *)
(* The pump is an async generator on the single event loop.  Its state is  *)
(* recorded at its suspension points (every `yield` and the                *)
(* `await asyncio.sleep`); one action is the code that runs between two    *)
(* suspension points.  The agent runner is a thread: its queue puts and    *)
(* its completion interleave freely with the pump's actions.               *)
(***************************************************************************)
EXTENDS Naturals, Sequences, FiniteSets, TLC

\* ------------------------------------------------------------------ bounds

\* Notifications the agent delivers in one run (general scenarios).
MaxNotes == 3
\* Notifications beyond the batch size delivered in the batch scenario.
BatchExtra == 2
\* Notifications delivered in the scenario of arbitrary notification shapes.
HandlerNotes == 1
\* Characters in a payload written to the wire.
MaxPayload == 2
\* Components in a relative_path given to read_file.
MaxPathLen == 2
\* Entries in a repository that is listed, and the largest max_files.
MaxEntries == 3
MaxFilesArg == 3
\* Characters in a URL given to clone_repository.
MaxUrl == 6
\* Characters in the text of a file that is read, and the largest max_lines.
MaxText == 4
MaxLines == 3
\* The questions of one chat session.
MaxQuestions == 3

\* -------------------------------------------------------- program constants

\* ThreadPoolExecutor(max_workers=4)
MaxWorkers == 4
\* The inner loop drains at most 20 events per polling iteration.
BatchSize == 20
\* Queue(): maxsize 0, which queue.Queue reads as no capacity bound.
QueueMaxSize == 0
\* read_file_content(..., max_lines: int = 300)
DefaultMaxLines == 300

\* ------------------------------------------------------------------- runs

\* One more run than the pool has threads.
Runs == {"A", "B", "C", "D", "E"}
Modes == {"analysis", "chat"}

\* ---------------------------------------------------------- notifications
\* A notification is the kwargs of one callback call.  An optional value is
\* a sequence of length 0 (absent / None) or 1.

None == <<>>
Some(v) == <<v>>

\* current_tool_use values: absent, a non-dict truthy value, a dict with the
\* given keys (an empty dict has no keys).
NoTool == [type |-> "none", keys |-> {}, name |-> ""]
StrTool == [type |-> "str", keys |-> {}, name |-> ""]
DictTool(ks, n) == [type |-> "dict", keys |-> ks, name |-> n]

Kwargs(d, t, c, m) ==
    [data |-> d, current_tool_use |-> t, complete |-> c, tool_result_message |-> m]

TextNote(s) == Kwargs(Some(s), NoTool, FALSE, None)
ToolNote(n) == Kwargs(None, DictTool({"name", "input"}, n), FALSE, None)
ResultNote == Kwargs(None, NoTool, FALSE, Some("result"))
BareNote == Kwargs(None, NoTool, FALSE, None)

\* Python truthiness of kwargs.get("data") and of kwargs.get("current_tool_use")
DataTruthy(kw) == kw.data # None /\ kw.data[1] # ""
ToolTruthy(t) == t.type = "str" \/ (t.type = "dict" /\ t.keys # {})

\* tool.get("name", "tool")
ToolName(t) == IF "name" \in t.keys THEN t.name ELSE "tool"

Event(kind, data) == <<kind, data>>

\* An isinstance test that lets every value through.
IsDict_Any(t) == TRUE

\* isinstance(tool, dict)
IsDict(t) == t.type = "dict"

\* The call tool.get("name", "tool") is reached, and tool has no method get:
\* the handler raises AttributeError into the agent.
HandlerRaises(kw) ==
    /\ ~DataTruthy(kw)
    /\ ToolTruthy(kw.current_tool_use)
    /\ IsDict(kw.current_tool_use)
    /\ ~kw.complete
    /\ kw.current_tool_use.type # "dict"

\* The handler without its tool-result branch.
StreamingHandler_NoResult(kw) ==
    IF DataTruthy(kw)
    THEN <<Event("chunk", kw.data[1])>>
    ELSE IF ToolTruthy(kw.current_tool_use)
            /\ IsDict(kw.current_tool_use)
            /\ ~kw.complete
         THEN <<Event("tool_use", "Running tool: " \o ToolName(kw.current_tool_use))>>
         ELSE <<>>

\* The handler with the tool branch tested before the text token.
StreamingHandler_ToolFirst(kw) ==
    IF ToolTruthy(kw.current_tool_use)
       /\ IsDict(kw.current_tool_use)
       /\ ~kw.complete
    THEN <<Event("tool_use", "Running tool: " \o ToolName(kw.current_tool_use))>>
    ELSE IF DataTruthy(kw)
         THEN <<Event("chunk", kw.data[1])>>
         ELSE IF kw.tool_result_message # None
              THEN <<Event("tool_result", "Tool completed")>>
              ELSE <<>>

\* _StreamingHandler.__call__: the events one call puts on the queue.
StreamingHandler(kw) ==
    IF DataTruthy(kw)
    THEN <<Event("chunk", kw.data[1])>>
    ELSE IF ToolTruthy(kw.current_tool_use)
            /\ IsDict(kw.current_tool_use)
            /\ ~kw.complete
         THEN <<Event("tool_use", "Running tool: " \o ToolName(kw.current_tool_use))>>
         ELSE IF kw.tool_result_message # None
              THEN <<Event("tool_result", "Tool completed")>>
              ELSE <<>>

\* ------------------------------------------------------------------ frames

\* sse(event, data): one frame of the stream, as the (event, data) pair that
\* the JSON object of the frame carries.
sse(event, data) == [event |-> event, data |-> data]

StatusInit(m) ==
    IF m = "analysis" THEN "Initializing analysis agent..."
    ELSE "Initializing chat agent..."

\* The source writes an em dash where these strings have " - ".
StatusStarted(m) ==
    IF m = "analysis" THEN "Agent started - cloning repository..."
    ELSE "Agent started - exploring repository..."

ErrorPrefix(m) == IF m = "analysis" THEN "Analysis failed: " ELSE "Chat failed: "

RECURSIVE Join(_)
\* "".join(collected)
Join(ss) == IF ss = <<>> THEN "" ELSE Head(ss) \o Join(Tail(ss))

\* ------------------------------------------------------------------- state

VARIABLES
    pc,         \* per run: the pump generator's suspension point
    mode,       \* per run: "analysis" (run_analysis) or "chat" (run_chat)
    q,          \* per run: the Queue of (event_type, data) tuples
    futureDone, \* per run: future.done() as the event loop sees it
    drained,    \* per run: the inner loop's counter
    collected,  \* per run: the chunk payloads collected so far
    frames,     \* per run: the frames yielded to the consumer, in order
    worker,     \* per run: where the agent runner is
    outcome,    \* per run: what the agent runner returned or raised
    workQueue,  \* the executor's queue of submitted, not yet started, runners
    delivered,  \* per run: the notifications the agent has delivered
    enqueued,   \* per run: the events the run's handler has put, in order
    request,    \* per run: the HTTP request that asked for it, if any
    response,   \* per run: the HTTP response given to that request
    submissions, \* per run: how often the runner was submitted to the pool
    invocations, \* per run: how often agent(prompt) was called
    repo,       \* per run: the directory clone_repository made for it
    wire,       \* a stream of frames as text, written and read back
    fsCall,     \* a call of a file tool and what it did
    session     \* the frontend's session: chat_history and the download data

vars == <<pc, mode, q, futureDone, drained, collected, frames, worker, outcome,
          workQueue, delivered, enqueued, request, response, submissions,
          invocations, repo, wire, fsCall, session>>

\* What the pump and the runner leave alone, but for their own counters.
\* httpVars are the two ends of the HTTP exchange: the requests and responses
\* of the backend and the session of the frontend.
httpVars == <<request, response, session>>
countVars == <<submissions, invocations>>
envVars == <<httpVars, repo, wire, fsCall>>

pumpVars == <<pc, mode, drained, collected, frames>>
workerVars == <<worker, outcome, workQueue, delivered, enqueued>>

NoOutcome == [kind |-> "none", value |-> ""]

\* No request has arrived; no response has been given.
NoRequest == [path |-> "none"]
NoResponse == [status |-> "none", detail |-> ""]

\* Nothing has been written to the wire; no file tool has been called.
NoWire == [phase |-> "idle"]
NoCall == [tool |-> "none"]

\* st.session_state.chat_history = []; no download button is shown.
NoSession == [chat_history |-> <<>>, download |-> <<>>]

Init ==
    /\ pc = [r \in Runs |-> "idle"]
    /\ mode = [r \in Runs |-> "analysis"]
    /\ q = [r \in Runs |-> <<>>]
    /\ futureDone = [r \in Runs |-> FALSE]
    /\ drained = [r \in Runs |-> 0]
    /\ collected = [r \in Runs |-> <<>>]
    /\ frames = [r \in Runs |-> <<>>]
    /\ worker = [r \in Runs |-> "none"]
    /\ outcome = [r \in Runs |-> NoOutcome]
    /\ workQueue = <<>>
    /\ delivered = [r \in Runs |-> <<>>]
    /\ enqueued = [r \in Runs |-> <<>>]
    /\ request = [r \in Runs |-> NoRequest]
    /\ response = [r \in Runs |-> NoResponse]
    /\ submissions = [r \in Runs |-> 0]
    /\ session = NoSession
    /\ invocations = [r \in Runs |-> 0]
    /\ repo = [r \in Runs |-> "none"]
    /\ wire = NoWire
    /\ fsCall = NoCall

\* ------------------------------------------------------------ agent runner

\* The runners a pool thread is executing.
Busy == {r \in Runs : worker[r] \in {"building", "invoking"}}

\* One queue shared by every handler.
HandlerQueue_Shared(r) == "A"

\* _StreamingHandler(q): the queue the handler of run r puts on is the queue
\* run r's pump created and passed to _run_agent_sync.
HandlerQueue(r) == r

\* A pool that starts a thread for every submitted runner.
WorkerStart_Unbounded(r) ==
    /\ workQueue # <<>>
    /\ Head(workQueue) = r
    /\ worker' = [worker EXCEPT ![r] = "building"]
    /\ workQueue' = Tail(workQueue)
    /\ UNCHANGED <<envVars, countVars, pumpVars, q, futureDone, outcome, delivered, enqueued>>

\* A pool thread takes the oldest submitted runner; at most MaxWorkers run.
WorkerStart(r) ==
    /\ workQueue # <<>>
    /\ Head(workQueue) = r
    /\ Cardinality(Busy) < MaxWorkers
    /\ worker' = [worker EXCEPT ![r] = "building"]
    /\ workQueue' = Tail(workQueue)
    /\ UNCHANGED <<envVars, countVars, pumpVars, q, futureDone, outcome, delivered, enqueued>>

\* BedrockModel(...) or Agent(...) raises; e is str(exc).  Failures are of
\* class Exception, the class the pump's `except Exception` catches; a
\* SystemExit or KeyboardInterrupt in the runner is interpreter shutdown and
\* is not a run outcome.
BuildFails(r, e) ==
    /\ worker[r] = "building"
    /\ worker' = [worker EXCEPT ![r] = "finished"]
    /\ outcome' = [outcome EXCEPT ![r] = [kind |-> "raised", value |-> e]]
    /\ UNCHANGED <<envVars, countVars, pumpVars, q, futureDone, workQueue, delivered, enqueued>>

\* The model and the agent are built; agent(prompt) begins.
BuildOk(r) ==
    /\ worker[r] = "building"
    /\ worker' = [worker EXCEPT ![r] = "invoking"]
    /\ invocations' = [invocations EXCEPT ![r] = @ + 1]
    /\ UNCHANGED submissions
    /\ UNCHANGED <<envVars, pumpVars, q, futureDone, outcome, workQueue, delivered, enqueued>>

\* A queue that holds one item.
PutBlocks_Bounded(s) == Len(s) >= 1

\* Queue.put(item) with block=True waits while the queue is full; a queue of
\* maxsize 0 is never full.
PutBlocks(s) == QueueMaxSize > 0 /\ Len(s) >= QueueMaxSize

\* The agent calls the handler with kwargs kw (at most max calls per run).
\* The call returns once its put is done; an exception of the handler
\* propagates out of agent(prompt) and ends the runner.
Notify(r, kw, max) ==
    /\ worker[r] = "invoking"
    /\ Len(delivered[r]) < max
    /\ ~(PutBlocks(q[HandlerQueue(r)]) /\ StreamingHandler(kw) # <<>>)
    /\ delivered' = [delivered EXCEPT ![r] = Append(@, kw)]
    /\ IF HandlerRaises(kw)
       THEN /\ worker' = [worker EXCEPT ![r] = "finished"]
            /\ outcome' = [outcome EXCEPT ![r] =
                   [kind |-> "raised", value |-> "AttributeError"]]
            /\ UNCHANGED <<q, enqueued>>
       ELSE /\ q' = [q EXCEPT ![HandlerQueue(r)] = @ \o StreamingHandler(kw)]
            /\ enqueued' = [enqueued EXCEPT ![r] = @ \o StreamingHandler(kw)]
            /\ UNCHANGED <<worker, outcome>>
    /\ UNCHANGED <<envVars, countVars, pumpVars, futureDone, workQueue>>

\* agent(prompt) returns; the runner returns str(result).
AgentReturns(r, s) ==
    /\ worker[r] = "invoking"
    /\ worker' = [worker EXCEPT ![r] = "finished"]
    /\ outcome' = [outcome EXCEPT ![r] = [kind |-> "returned", value |-> s]]
    /\ UNCHANGED <<envVars, countVars, pumpVars, q, futureDone, workQueue, delivered, enqueued>>

\* agent(prompt) raises; the exception (of class Exception, e is str(exc))
\* propagates out of the runner into the future.
AgentRaises(r, e) ==
    /\ worker[r] = "invoking"
    /\ worker' = [worker EXCEPT ![r] = "finished"]
    /\ outcome' = [outcome EXCEPT ![r] = [kind |-> "raised", value |-> e]]
    /\ UNCHANGED <<envVars, countVars, pumpVars, q, futureDone, workQueue, delivered, enqueued>>

\* The event loop runs the completion callback of the executor future: from
\* now on future.done() is true for the pump.  It runs on the loop, so only
\* between two actions of a pump, and only after the runner has finished.
FutureCallback(r) ==
    /\ worker[r] = "finished"
    /\ ~futureDone[r]
    /\ futureDone' = [futureDone EXCEPT ![r] = TRUE]
    /\ UNCHANGED <<envVars, countVars, pumpVars, q, workerVars>>

\* -------------------------------------------------------------- event pump

\* A get that returns the newest item instead of the oldest.
QGetItem_Newest(s) == s[Len(s)]

\* q.get_nowait() on a non-empty queue: the item returned, the queue left.
QGetItem(s) == Head(s)
QGetRest(s) == Tail(s)

\* A final drain that never runs.
QEmpty_Always(s) == TRUE

\* q.empty()
QEmpty(s) == s = <<>>

\* An inner loop that stops one event late.
DrainMore_OneLate(d) == d <= BatchSize

\* while drained < 20
DrainMore(d) == d < BatchSize

\* An outer loop that never sees the future done.
LoopContinues_Always(r) == TRUE

\* while not future.done()
LoopContinues(r) == ~futureDone[r]

\* One future shared by every pump.
FutureOf_Shared(r) == "A"

\* The future the pump of run r awaits.
FutureOf(r) == r

\* A final text that ignores the collected chunks.
FinalText_ResultOnly(coll, full_result) == full_result

\* final_text = "".join(collected) if collected else full_result
FinalText(coll, full_result) == IF coll # <<>> THEN Join(coll) ELSE full_result

\* A chat generator that reports a failure as its answer.
ErrorFrame_ChatAnswers(m, exc) ==
    IF m = "chat" THEN sse("done", exc) ELSE sse("error", ErrorPrefix(m) \o exc)

\* An error frame without the failure description.
ErrorFrame_NoDescription(m, exc) == sse("error", ErrorPrefix(m))

\* sse("error", f"Analysis failed: {exc}")
ErrorFrame(m, exc) == sse("error", ErrorPrefix(m) \o exc)

\* event_type, data = q.get_nowait(); collect a chunk; yield sse(event_type, data)
Take(r, next, d) ==
    LET item == QGetItem(q[r]) IN
    /\ q' = [q EXCEPT ![r] = QGetRest(@)]
    /\ collected' = [collected EXCEPT ![r] =
                        IF item[1] = "chunk" THEN Append(@, item[2]) ELSE @]
    /\ frames' = [frames EXCEPT ![r] = Append(@, sse(item[1], item[2]))]
    /\ pc' = [pc EXCEPT ![r] = next]
    /\ drained' = [drained EXCEPT ![r] = d]

\* await asyncio.sleep(0.05).  `drained` is dead until the next iteration
\* resets it, so it is recorded as 0 while the pump sleeps.
Sleep(r) ==
    /\ pc' = [pc EXCEPT ![r] = "sleep"]
    /\ drained' = [drained EXCEPT ![r] = 0]
    /\ UNCHANGED <<q, collected, frames>>

\* A get that waits for an item: q.get()
GetWaits_Blocking(s) == s = <<>>

\* q.get_nowait() never waits: on an empty queue it raises Empty at once.
GetWaits(s) == FALSE

\* The inner loop with the counter at d: one more event is yielded, or the
\* loop ends (20 drained, or Empty) and the pump sleeps.
InnerLoop(r, d) ==
    IF DrainMore(d) /\ q[r] # <<>>
    THEN Take(r, "drain_yield", d)
    ELSE /\ ~(DrainMore(d) /\ GetWaits(q[r]))
         /\ Sleep(r)

\* full_result = await future; yield the error frame, or the done frame.
AwaitFuture(r) ==
    LET o == outcome[FutureOf(r)] IN
    /\ o.kind # "none"
    /\ frames' = [frames EXCEPT ![r] =
           Append(@, IF o.kind = "raised"
                     THEN ErrorFrame(mode[r], o.value)
                     ELSE sse("done", FinalText(collected[r], o.value)))]
    /\ pc' = [pc EXCEPT ![r] =
           IF o.kind = "raised" THEN "error_yield" ELSE "done_yield"]
    /\ drained' = [drained EXCEPT ![r] = 0]
    /\ UNCHANGED <<q, collected>>

\* The drain after the loop: one more event is yielded, or the queue is
\* empty and the future is awaited.
FinalDrain(r) ==
    IF ~QEmpty(q[r]) /\ q[r] # <<>>
    THEN Take(r, "final_yield", 0)
    ELSE AwaitFuture(r)

\* The head of the outer loop.
LoopHead(r) ==
    IF LoopContinues(r) THEN InnerLoop(r, 0) ELSE FinalDrain(r)

\* The generator is started: yield sse("status", "Initializing ...")
Request(r, m) ==
    /\ pc[r] = "idle"
    /\ mode' = [mode EXCEPT ![r] = m]
    /\ frames' = [frames EXCEPT ![r] = <<sse("status", StatusInit(m))>>]
    /\ pc' = [pc EXCEPT ![r] = "status1"]
    /\ UNCHANGED <<envVars, countVars, q, futureDone, drained, collected, workerVars>>

\* A pump that yields its second status frame without submitting the runner.
Submit_NoExecutor(r) ==
    /\ pc[r] = "status1"
    /\ q' = [q EXCEPT ![r] = <<>>]
    /\ frames' = [frames EXCEPT ![r] = Append(@, sse("status", StatusStarted(mode[r])))]
    /\ pc' = [pc EXCEPT ![r] = "status2"]
    /\ UNCHANGED <<envVars, countVars, mode, futureDone, drained, collected, workerVars>>

\* q = Queue(); future = loop.run_in_executor(_executor, _run_agent_sync, ...);
\* yield sse("status", "Agent started ...")
Submit(r) ==
    /\ pc[r] = "status1"
    /\ q' = [q EXCEPT ![r] = <<>>]
    /\ worker' = [worker EXCEPT ![r] = "queued"]
    /\ workQueue' = Append(workQueue, r)
    /\ submissions' = [submissions EXCEPT ![r] = @ + 1]
    /\ UNCHANGED invocations
    /\ frames' = [frames EXCEPT ![r] = Append(@, sse("status", StatusStarted(mode[r])))]
    /\ pc' = [pc EXCEPT ![r] = "status2"]
    /\ UNCHANGED <<envVars, mode, futureDone, drained, collected, outcome, delivered, enqueued>>

\* Resumed after the second status frame: collected = []; the loop begins.
ResumeStarted(r) ==
    /\ pc[r] = "status2"
    /\ LoopHead(r)
    /\ UNCHANGED <<envVars, countVars, mode, futureDone, workerVars>>

\* Resumed after a frame of the inner loop: drained += 1
ResumeDrainYield(r) ==
    /\ pc[r] = "drain_yield"
    /\ InnerLoop(r, drained[r] + 1)
    /\ UNCHANGED <<envVars, countVars, mode, futureDone, workerVars>>

\* The sleep is over: the outer loop tests future.done() again.
ResumeSleep(r) ==
    /\ pc[r] = "sleep"
    /\ LoopHead(r)
    /\ UNCHANGED <<envVars, countVars, mode, futureDone, workerVars>>

\* Resumed after a frame of the final drain.
ResumeFinalYield(r) ==
    /\ pc[r] = "final_yield"
    /\ FinalDrain(r)
    /\ UNCHANGED <<envVars, countVars, mode, futureDone, workerVars>>

\* The error branch without its return: the done frame follows the error frame.
ResumeError_NoReturn(r) ==
    /\ pc[r] = "error_yield"
    /\ frames' = [frames EXCEPT ![r] = Append(@, sse("done", Join(collected[r])))]
    /\ pc' = [pc EXCEPT ![r] = "done_yield"]
    /\ UNCHANGED <<envVars, countVars, mode, q, futureDone, drained, collected, workerVars>>

\* An error branch that submits the runner again and goes back to polling.
ResumeError_Retry(r) ==
    /\ pc[r] = "error_yield"
    /\ worker' = [worker EXCEPT ![r] = "queued"]
    /\ workQueue' = Append(workQueue, r)
    /\ outcome' = [outcome EXCEPT ![r] = NoOutcome]
    /\ futureDone' = [futureDone EXCEPT ![r] = FALSE]
    /\ submissions' = [submissions EXCEPT ![r] = @ + 1]
    /\ pc' = [pc EXCEPT ![r] = "sleep"]
    /\ UNCHANGED <<envVars, invocations, mode, q, drained, collected, frames,
                   delivered, enqueued>>

\* Resumed after the error frame: return
ResumeError(r) ==
    /\ pc[r] = "error_yield"
    /\ pc' = [pc EXCEPT ![r] = "closed"]
    /\ UNCHANGED <<envVars, countVars, mode, q, futureDone, drained, collected, frames, workerVars>>

\* Resumed after the done frame: the generator ends.
ResumeDone(r) ==
    /\ pc[r] = "done_yield"
    /\ pc' = [pc EXCEPT ![r] = "closed"]
    /\ UNCHANGED <<envVars, countVars, mode, q, futureDone, drained, collected, frames, workerVars>>

Suspended ==
    {"status1", "status2", "drain_yield", "sleep", "final_yield",
     "error_yield", "done_yield"}

\* A disconnect that also stops the runner on its thread.
Disconnect_Interrupts(r) ==
    /\ pc[r] \in Suspended
    /\ pc' = [pc EXCEPT ![r] = "cancelled"]
    /\ worker' = [worker EXCEPT ![r] = IF @ = "invoking" THEN "finished" ELSE @]
    /\ outcome' = [outcome EXCEPT ![r] =
           IF worker[r] = "invoking"
           THEN [kind |-> "raised", value |-> "CancelledError"] ELSE @]
    /\ UNCHANGED <<envVars, countVars, mode, q, futureDone, drained, collected, frames,
                   workQueue, delivered, enqueued>>

\* The client disconnects: the generator is closed where it is suspended.
\* Nothing in the generator cancels the executor future or signals the thread.
Disconnect(r) ==
    /\ pc[r] \in Suspended
    /\ pc' = [pc EXCEPT ![r] = "cancelled"]
    /\ UNCHANGED <<envVars, countVars, mode, q, futureDone, drained, collected, frames, workerVars>>

\* ------------------------------------------------------------ specifications

PumpStep(r, ms) ==
    \/ \E m \in ms : Request(r, m)
    \/ Submit(r)
    \/ ResumeStarted(r)
    \/ ResumeDrainYield(r)
    \/ ResumeSleep(r)
    \/ ResumeFinalYield(r)
    \/ ResumeError(r)
    \/ ResumeDone(r)

WorkerStep(r, K, max, R, E) ==
    \/ WorkerStart(r)
    \/ \E e \in E : BuildFails(r, e)
    \/ BuildOk(r)
    \/ \E kw \in K : Notify(r, kw, max)
    \/ \E s \in R : AgentReturns(r, s)
    \/ \E e \in E : AgentRaises(r, e)
    \/ FutureCallback(r)

\* One run, in either mode; the agent delivers any notifications of Notes.
Notes ==
    {TextNote("a"), TextNote("b"), ToolNote("clone_repository"), ResultNote, BareNote}

Next ==
    \/ PumpStep("A", Modes)
    \/ WorkerStep("A", Notes, MaxNotes, {"report"}, {"boom"})
    \/ Disconnect("A")

Spec == Init /\ [][Next]_vars

\* Two concurrent runs, one per mode, whose agents deliver different tokens,
\* results and failures.
PairNotes == 2

NotesOf(r) ==
    IF r = "A" THEN {TextNote("a"), TextNote("x")} ELSE {TextNote("b"), TextNote("y")}
ResultOf(r) == IF r = "A" THEN "reportA" ELSE "reportB"
FailureOf(r) == IF r = "A" THEN "boomA" ELSE "boomB"
ModeOf(r) == IF r = "A" THEN "analysis" ELSE "chat"

PairRuns == {"A", "B"}

NextPair ==
    \E r \in PairRuns :
        \/ PumpStep(r, {ModeOf(r)})
        \/ WorkerStep(r, NotesOf(r), PairNotes, {ResultOf(r)}, {FailureOf(r)})

SpecPair == Init /\ [][NextPair]_vars

\* Two concurrent runs, run_analysis and run_chat, whose agents may deliver
\* the same notifications and end in the same way.
TwinNotes == {TextNote("a"), ToolNote("read_file_content")}

NextTwin ==
    \E r \in PairRuns :
        \/ PumpStep(r, {ModeOf(r)})
        \/ WorkerStep(r, TwinNotes, PairNotes, {"report"}, {"boom"})

SpecTwin == Init /\ [][NextTwin]_vars

\* One run whose agent delivers BatchSize + BatchExtra text tokens, the n-th
\* token being Tok(n).
Tok(n) == "t" \o ToString(n)

NextBatch ==
    \/ PumpStep("A", {"analysis"})
    \/ WorkerStep("A", {TextNote(Tok(Len(delivered["A"]) + 1))},
                  BatchSize + BatchExtra, {"report"}, {"boom"})

SpecBatch == Init /\ [][NextBatch]_vars

\* One run whose client keeps consuming: the event loop keeps resuming the
\* pump, the pool keeps running the runner, and the agent returns or raises
\* after at most MaxNotes notifications.
NextLive ==
    \/ PumpStep("A", Modes)
    \/ WorkerStep("A", Notes, MaxNotes, {"report"}, {"boom"})

SpecLive ==
    /\ Init
    /\ [][NextLive]_vars
    /\ WF_vars(PumpStep("A", Modes))
    /\ WF_vars(WorkerStep("A", Notes, MaxNotes, {"report"}, {"boom"}))

\* One run whose client may disconnect; the pool thread keeps being scheduled.
SpecCancel ==
    /\ Init
    /\ [][Next]_vars
    /\ WF_vars(WorkerStep("A", Notes, MaxNotes, {"report"}, {"boom"}))

\* Every shape of notification: data absent, empty or a token; the tool
\* value absent, a non-dict, an empty dict, a dict without a name, a dict
\* with a name; complete false or true; a tool result absent or present.
Shapes ==
    {Kwargs(d, t, c, m) :
        d \in {None, Some(""), Some("a")},
        t \in {NoTool, StrTool, DictTool({}, ""), DictTool({"input"}, ""),
               DictTool({"name", "input"}, "read_file")},
        c \in BOOLEAN,
        m \in {None, Some("result")}}

NextHandler ==
    \/ PumpStep("A", {"analysis"})
    \/ WorkerStep("A", Shapes, HandlerNotes, {"report"}, {"boom"})

SpecHandler == Init /\ [][NextHandler]_vars

\* More concurrent requests than pool threads.  Every run is requested,
\* submitted and run by the pool; run "A" is also pumped to its end, the
\* other pumps stay suspended at their second status frame (what a pump does
\* after submitting reads future.done() and its own queue only).
NextPool ==
    \/ \E r \in Runs :
           \/ Request(r, "analysis")
           \/ Submit(r)
           \/ WorkerStart(r)
           \/ BuildFails(r, "boom")
           \/ BuildOk(r)
           \/ AgentReturns(r, "report")
           \/ AgentRaises(r, "boom")
    \/ FutureCallback("A")
    \/ ResumeStarted("A")
    \/ ResumeSleep("A")
    \/ ResumeError("A")
    \/ ResumeDone("A")

SpecPool == Init /\ [][NextPool]_vars

\* ------------------------------------------------------------ repository
\* The directory of a run: "none", "present" (cloned), "stray" (made by
\* mkdtemp and left behind empty by an early error return) or "deleted".

\* How a call of clone_repository ends: the clone succeeds; git fails or an
\* exception is caught, and the directory is removed; the PAT URL has no
\* "://" and the function returns before cloning.
CloneResults == {"cloned", "git_failed", "bad_url"}

\* The agent calls the tool clone_repository.
ToolClone(r, res) ==
    /\ worker[r] = "invoking"
    /\ repo[r] = "none"
    /\ repo' = [repo EXCEPT ![r] =
           IF res = "cloned" THEN "present"
           ELSE IF res = "git_failed" THEN "none" ELSE "stray"]
    /\ UNCHANGED <<httpVars, wire, fsCall, countVars, pumpVars, q, futureDone, workerVars>>

\* The agent calls the tool cleanup_repository on the cloned directory.
\* Only the agent calls it: the runner and the pump have no cleanup of
\* their own, on return, on exception or on close.
ToolCleanup(r) ==
    /\ worker[r] = "invoking"
    /\ repo[r] = "present"
    /\ repo' = [repo EXCEPT ![r] = "deleted"]
    /\ UNCHANGED <<httpVars, wire, fsCall, countVars, pumpVars, q, futureDone, workerVars>>

NextRepo ==
    \/ Next
    \/ \E res \in CloneResults : ToolClone("A", res)
    \/ ToolCleanup("A")

SpecRepo == Init /\ [][NextRepo]_vars

RECURSIVE SeqsUpTo(_, _)
\* The sequences of at most n elements of S.
SeqsUpTo(S, n) ==
    IF n = 0 THEN {<<>>}
    ELSE LET shorter == SeqsUpTo(S, n - 1)
         IN  shorter \cup {Append(t, c) : t \in {u \in shorter : Len(u) = n - 1}, c \in S}

\* ------------------------------------------------------------ wire format
\* Text on the wire is a sequence of characters.

DataPrefix == <<"d", "a", "t", "a", ":", " ">>
EventKey == <<"e", "v", "e", "n", "t">>
DataKey == <<"d", "a", "t", "a">>

\* An escaping that writes a newline as it is.
JsonEscapeChar_RawNewline(c) ==
    IF c = "\"" THEN <<"\\", "\"">>
    ELSE IF c = "\\" THEN <<"\\", "\\">>
    ELSE <<c>>

\* json.dumps of one character of a string.
JsonEscapeChar(c) ==
    IF c = "\n" THEN <<"\\", "n">>
    ELSE IF c = "\"" THEN <<"\\", "\"">>
    ELSE IF c = "\\" THEN <<"\\", "\\">>
    ELSE <<c>>

RECURSIVE JsonEscape(_)
JsonEscape(t) == IF t = <<>> THEN <<>> ELSE JsonEscapeChar(Head(t)) \o JsonEscape(Tail(t))

\* json.dumps of a string
JsonString(t) == <<"\"">> \o JsonEscape(t) \o <<"\"">>

\* json.dumps({'event': event, 'data': data})
JsonDumps(f) ==
    <<"{">> \o JsonString(EventKey) \o <<":", " ">> \o JsonString(f.event)
        \o <<",", " ">> \o JsonString(DataKey) \o <<":", " ">> \o JsonString(f.data)
        \o <<"}">>

\* sse(event, data) as the text it returns: f"data: {json.dumps(...)}\n\n"
SseText(f) == DataPrefix \o JsonDumps(f) \o <<"\n", "\n">>

RECURSIVE StreamText(_)
\* The response body: the frames in the order they were yielded.
StreamText(fs) == IF fs = <<>> THEN <<>> ELSE SseText(Head(fs)) \o StreamText(Tail(fs))

\* resp.iter_lines(): the text cut at every newline, line ends removed: one
\* line up to each newline, and one more for text after the last newline.
SplitLines(t) ==
    LET ends == {i \in 1..Len(t) : t[i] = "\n"}
        End(k) == CHOOSE i \in ends : Cardinality({j \in ends : j < i}) = k - 1
        Start(k) == IF k = 1 THEN 1 ELSE End(k - 1) + 1
        n == Cardinality(ends)
        whole == [k \in 1..n |-> SubSeq(t, Start(k), End(k) - 1)]
    IN  IF Start(n + 1) <= Len(t)
        THEN Append(whole, SubSeq(t, Start(n + 1), Len(t)))
        ELSE whole

\* str.startswith
StartsWith(t, p) == Len(t) >= Len(p) /\ SubSeq(t, 1, Len(p)) = p

\* json.JSONDecodeError
DecodeError == [ok |-> FALSE, value |-> <<>>, rest |-> <<>>]

RECURSIVE ScanString(_, _)
\* json.loads within a string, after its opening quote: the value up to the
\* closing quote and the text after it.  A raw newline, an unknown escape or
\* the end of the text is an error.
ScanString(t, acc) ==
    IF t = <<>> \/ Head(t) = "\n" THEN DecodeError
    ELSE IF Head(t) = "\"" THEN [ok |-> TRUE, value |-> acc, rest |-> Tail(t)]
    ELSE IF Head(t) = "\\"
         THEN IF Len(t) < 2 \/ t[2] \notin {"n", "\"", "\\"} THEN DecodeError
              ELSE ScanString(SubSeq(t, 3, Len(t)),
                              Append(acc, IF t[2] = "n" THEN "\n" ELSE t[2]))
         ELSE ScanString(Tail(t), Append(acc, Head(t)))

\* A JSON string at the head of t.
ParseString(t) ==
    IF t # <<>> /\ Head(t) = "\"" THEN ScanString(Tail(t), <<>>) ELSE DecodeError

RECURSIVE ParseMembers(_, _)
\* The members "key": "value" of an object up to its closing brace, which
\* must end the text; acc holds the members read so far.
ParseMembers(t, acc) ==
    LET k == ParseString(t)
        v == ParseString(SubSeq(k.rest, 3, Len(k.rest)))
    IN  IF ~k.ok \/ ~StartsWith(k.rest, <<":", " ">>) \/ ~v.ok THEN DecodeError
        ELSE IF v.rest = <<"}">>
             THEN [ok |-> TRUE, value |-> Append(acc, <<k.value, v.value>>), rest |-> <<>>]
             ELSE IF StartsWith(v.rest, <<",", " ">>)
                  THEN ParseMembers(SubSeq(v.rest, 3, Len(v.rest)),
                                    Append(acc, <<k.value, v.value>>))
                  ELSE DecodeError

\* json.loads of the text of an object of strings.
JsonLoads(t) ==
    IF t # <<>> /\ Head(t) = "{" THEN ParseMembers(Tail(t), <<>>) ELSE DecodeError

\* dict.get(key, default) on the members read (a later member of the same
\* key replaces an earlier one).
Get(members, key, default) ==
    LET at == {i \in 1..Len(members) : members[i][1] = key}
    IN  IF at = {} THEN default
        ELSE members[CHOOSE i \in at : \A j \in at : j <= i][2]

ChunkKind == <<"c", "h", "u", "n", "k">>
DoneKind == <<"d", "o", "n", "e">>

\* What stream_events yields for one line that starts with "data: ".
ParseLine(line) ==
    LET raw == SubSeq(line, Len(DataPrefix) + 1, Len(line))
        event == JsonLoads(raw)
    IN  IF event.ok
        THEN <<Get(event.value, EventKey, ChunkKind), Get(event.value, DataKey, <<>>)>>
        ELSE <<ChunkKind, raw>>

RECURSIVE ParseLines(_)
ParseLines(ls) ==
    IF ls = <<>> THEN <<>>
    ELSE (IF StartsWith(Head(ls), DataPrefix) THEN <<ParseLine(Head(ls))>> ELSE <<>>)
             \o ParseLines(Tail(ls))

\* stream_events: the (event_type, data) pairs yielded for a response body.
stream_events(text) == ParseLines(SplitLines(text))

\* Payloads of up to MaxPayload characters: a letter, a newline, a quote and
\* a backslash (the letter is n, so that backslash-n as two characters and a
\* newline are both there).
PayloadChars == {"n", "\n", "\"", "\\"}
Payloads == SeqsUpTo(PayloadChars, MaxPayload)

\* A stream is its terminal frame, or an agent frame and the terminal frame.
WireStreams ==
    {<<[event |-> DoneKind, data |-> d]>> : d \in Payloads}
        \cup {<<[event |-> ChunkKind, data |-> c], [event |-> DoneKind, data |-> d]>> :
                 c \in Payloads, d \in Payloads}

\* The backend writes the frames fs to the response.
WireSend(fs) ==
    /\ wire = NoWire
    /\ wire' = [phase |-> "sent", sent |-> fs, text |-> StreamText(fs), received |-> <<>>]
    /\ UNCHANGED <<httpVars, repo, fsCall, countVars, pumpVars, q, futureDone, workerVars>>

\* The frontend reads the response through stream_events.
WireReceive ==
    /\ wire.phase = "sent"
    /\ wire' = [wire EXCEPT !.phase = "received", !.received = stream_events(wire.text)]
    /\ UNCHANGED <<httpVars, repo, fsCall, countVars, pumpVars, q, futureDone, workerVars>>

NextWire ==
    \/ /\ wire = NoWire
       /\ \E fs \in WireStreams : WireSend(fs)
    \/ WireReceive

SpecWire == Init /\ [][NextWire]_vars

\* ------------------------------------------------------------ file tools
\* A path is the sequence of its components from "/".  The file system holds
\* the repository /r with a file f, a directory d with a file g, a symlink l
\* to the file /o outside the repository and a symlink m to f; /o may or may
\* not exist.  The repository also holds a file u that cannot be read and a
\* symlink c that points at itself.

RepoPath == <<"r">>

Dirs == {<<>>, <<"r">>, <<"r", "d">>}
Files(outside) ==
    {<<"r", "f">>, <<"r", "d", "g">>, <<"r", "u">>} \cup (IF outside THEN {<<"o">>} ELSE {})
Unreadable == {<<"r", "u">>}
Loops == {<<"r", "c">>}

\* The text of the files: f has two lines, the others are empty.
TextOf(p) == IF p = <<"r", "f">> THEN <<"a", "\n", "b">> ELSE <<>>
Links == {<<"r", "l">>, <<"r", "m">>}
LinkTarget(p) == IF p = <<"r", "l">> THEN <<"o">> ELSE <<"r", "f">>

\* Path(repo_path) / relative_path: an absolute relative_path replaces the
\* left side.
JoinPath(base, rel) == IF rel.abs THEN rel.parts ELSE base \o rel.parts

Parent(p) == IF p = <<>> THEN <<>> ELSE SubSeq(p, 1, Len(p) - 1)

RECURSIVE ResolveFrom(_, _)
\* Path.resolve(): the components of rest applied to the resolved path cur;
\* ".." goes to the parent, a symlink is replaced by its resolved target, a
\* name that does not exist is kept.
ResolveFrom(cur, rest) ==
    IF rest = <<>> THEN cur
    ELSE IF Head(rest) = ".." THEN ResolveFrom(Parent(cur), Tail(rest))
    ELSE IF Append(cur, Head(rest)) \in Links
         THEN ResolveFrom(ResolveFrom(<<>>, LinkTarget(Append(cur, Head(rest)))), Tail(rest))
         ELSE ResolveFrom(Append(cur, Head(rest)), Tail(rest))

Resolve(p) == ResolveFrom(<<>>, p)

\* PurePath.relative_to(base) raises ValueError unless base's components
\* begin the path's.
RelativeToRaises(p, base) == ~(Len(p) >= Len(base) /\ SubSeq(p, 1, Len(base)) = base)

\* A guard that tests the path as given.
Guarded_Unresolved(target) == target

\* The path the traversal guard tests: target.resolve()
Guarded(target) == Resolve(target)

\* The resolved path runs through a symlink loop.
HitsLoop(real) == \E n \in 1..Len(real) : SubSeq(real, 1, n) \in Loops

Min(a, b) == IF a <= b THEN a ELSE b

RECURSIVE JoinLines(_)
\* "\n".join(lines)
JoinLines(ls) ==
    IF ls = <<>> THEN <<>>
    ELSE IF Len(ls) = 1 THEN Head(ls)
    ELSE Head(ls) \o <<"\n">> \o JoinLines(Tail(ls))

\* A truncation flag that is also set when the file just fits.
Truncated_AtLimit(total, max_lines) == total >= max_lines

\* truncated = len(lines) > max_lines
Truncated(total, max_lines) == total > max_lines

\* The fields of a successful read: the text split into lines, the first
\* max_lines of them (max_lines >= 0) joined again, and the counts.
ReadLines(text, max_lines) ==
    LET lines == SplitLines(text)
    IN  [content |-> JoinLines(SubSeq(lines, 1, Min(Len(lines), max_lines))),
         lines_shown |-> Min(Len(lines), max_lines),
         total_lines |-> Len(lines),
         truncated |-> Truncated(Len(lines), max_lines)]

NoBody == [content |-> <<>>, lines_shown |-> 0, total_lines |-> 0, truncated |-> FALSE]

\* What a call gives back: result names the error or is "content"; probed
\* and read are the files exists() / is_file() and read_text() were called on
\* (these follow symlinks); body holds the fields of a successful read.
Out(result, probed, read, body) ==
    [result |-> result, probed |-> probed, read |-> read, body |-> body]

\* read_file_content(repo_path, relative_path, max_lines).  On a symlink
\* loop Path.resolve() raises RuntimeError in the interpreters where
\* loopRaises holds (it is not a ValueError, so nothing catches it) and
\* returns the path as it is in the others.
read_file_content(rel, outside, loopRaises, max_lines) ==
    LET target == JoinPath(RepoPath, rel)
        real == Resolve(target)
    IN  IF loopRaises /\ HitsLoop(real)
        THEN Out("raised RuntimeError", {}, {}, NoBody)
        ELSE IF RelativeToRaises(Guarded(target), Resolve(RepoPath))
        THEN Out("Path traversal detected", {}, {}, NoBody)
        ELSE IF real \notin Dirs \cup Files(outside)
        THEN Out("File not found", {real}, {}, NoBody)
        ELSE IF real \notin Files(outside)
        THEN Out("Not a file", {real}, {}, NoBody)
        ELSE IF real \in Unreadable
        THEN Out("read error", {real}, {real}, NoBody)
        ELSE Out("content", {real}, {real}, ReadLines(TextOf(real), max_lines))

\* The relative paths the agent may ask for.
PathNames == {"..", "f", "d", "g", "l", "m", "o", "r", "u", "c"}
RelPaths == [abs : BOOLEAN, parts : SeqsUpTo(PathNames, MaxPathLen)]

\* The agent calls the tool read_file.
ReadFile(rel, outside, loopRaises, max_lines) ==
    /\ fsCall = NoCall
    /\ fsCall' = [tool |-> "read_file", relative_path |-> rel, outside |-> outside,
                  max_lines |-> max_lines,
                  out |-> read_file_content(rel, outside, loopRaises, max_lines)]
    /\ UNCHANGED <<httpVars, repo, wire, countVars, pumpVars, q, futureDone, workerVars>>

\* The call is over.
ReadReturn ==
    /\ fsCall # NoCall
    /\ fsCall' = NoCall
    /\ UNCHANGED <<httpVars, repo, wire, countVars, pumpVars, q, futureDone, workerVars>>

NextRead ==
    \/ /\ fsCall = NoCall
       /\ \E rel \in RelPaths, outside \in BOOLEAN, loopRaises \in BOOLEAN,
             max_lines \in {1, DefaultMaxLines} :
              ReadFile(rel, outside, loopRaises, max_lines)
    \/ ReadReturn

SpecRead == Init /\ [][NextRead]_vars

\* The texts a file may hold and the limits a caller may give.
Texts == SeqsUpTo({"a", "\n"}, MaxText)

\* The read of a file of the given text: lines 194-203 of read_file_content
\* on their own.
ReadText(text, max_lines) ==
    /\ fsCall = NoCall
    /\ fsCall' = [tool |-> "read_text", text |-> text, max_lines |-> max_lines,
                  body |-> ReadLines(text, max_lines)]
    /\ UNCHANGED <<httpVars, repo, wire, countVars, pumpVars, q, futureDone, workerVars>>

NextLines ==
    \/ /\ fsCall = NoCall
       /\ \E text \in Texts, max_lines \in 0..MaxLines : ReadText(text, max_lines)
    \/ ReadReturn

SpecLines == Init /\ [][NextLines]_vars

\* ------------------------------------------------------------ clone
\* URLs and credentials are sequences of characters.

SchemeSep == <<":", "/", "/">>
OAuthUser == <<"o", "a", "u", "t", "h", "2", ":">>

\* The places where "://" begins in url.
SepAt(url) == {i \in 1..Len(url) : i + 2 <= Len(url) /\ SubSeq(url, i, i + 2) = SchemeSep}

\* "://" in url
HasSep(url) == SepAt(url) # {}

\* A split at the last "://".
SplitOnce_Last(url) ==
    LET i == CHOOSE i \in SepAt(url) : \A j \in SepAt(url) : j <= i
    IN  <<SubSeq(url, 1, i - 1), SubSeq(url, i + 3, Len(url))>>

RECURSIVE ScanSep(_, _)
\* The text is read from the left; acc is what was read before the separator.
ScanSep(t, acc) ==
    IF SubSeq(t, 1, 3) = SchemeSep THEN <<acc, SubSeq(t, 4, Len(t))>>
    ELSE ScanSep(Tail(t), Append(acc, Head(t)))

\* url.split("://", 1) for a url that holds "://": <<proto, rest>>
SplitOnce(url) == ScanSep(url, <<>>)

\* f"{proto}://oauth2:{credential}@{rest}"
AuthedUrl(url, credential) ==
    SplitOnce(url)[1] \o SchemeSep \o OAuthUser \o credential \o <<"@">> \o SplitOnce(url)[2]

\* git clone as the environment answers it: it raises when git cannot be
\* run; it exits non-zero when the credential is refused or was not given to
\* it, or when the branch asked for does not exist; else it exits 0.
GitClone(n, withBranch, authed, env) ==
    IF env.raises = n THEN "raised"
    ELSE IF env.cred_ok /\ authed /\ (withBranch => env.branch_exists) THEN "0"
    ELSE "128"

\* One run of git: key is the state of the SSH key file while git runs
\* ("none" when GIT_SSH_COMMAND is not set).
Attempt(url, withBranch, authed, key, rc) ==
    [url |-> url, branch |-> withBranch, authed |-> authed, key |-> key, rc |-> rc]

\* A key file that stays when git could not be run.
KeyAfterRun_NoFinally(rc) == IF rc = "raised" THEN "present" ELSE "absent"

\* finally: os.unlink(key_path), whatever _run did
KeyAfterRun(rc) == "absent"

CloneOut(field, value, dest, key, attempts) ==
    [fields |-> {field}, value |-> value, dest |-> dest, key |-> key, attempts |-> attempts]

\* The directory made by mkdtemp.
Dest == <<"/", "t", "/", "r", "e", "p", "o">>

\* What follows the first git clone: the retry without the branch when it
\* exited non-zero, the removal of dest on failure, the result.  url2 and
\* authed2 are the URL and the credential as the retry gives them to git.
CloneAfterFirst(first, url2, authed2, key, env) ==
    IF first.rc = "raised"
    THEN CloneOut("error", "exception", "removed", key, <<first>>)
    ELSE IF first.rc = "0"
    THEN CloneOut("repo_path", Dest, "present", key, <<first>>)
    ELSE LET second == Attempt(url2, FALSE, authed2, key, GitClone(2, FALSE, authed2, env))
         IN  IF second.rc = "0"
             THEN CloneOut("repo_path", Dest, "present", key, <<first, second>>)
             ELSE CloneOut("error", IF second.rc = "raised" THEN "exception" ELSE "stderr",
                           "removed", key, <<first, second>>)

\* clone_repository(url, auth_type, credential, branch): the result, the
\* state of dest and of the SSH key file at return, and the runs of git.
\* The SSH retry names the key file in GIT_SSH_COMMAND after the file has
\* been unlinked: git gets the credential only while the file is there.
clone_repository(url, auth_type, credential, env) ==
    IF auth_type = "pat"
    THEN IF ~HasSep(url)
         THEN CloneOut("error", "Cannot inject PAT into URL", "stray", "none", <<>>)
         ELSE LET authed_url == AuthedUrl(url, credential)
                  first == Attempt(authed_url, TRUE, TRUE, "none", GitClone(1, TRUE, TRUE, env))
              IN  CloneAfterFirst(first, authed_url, TRUE, "none", env)
    ELSE IF auth_type = "ssh"
    THEN LET first == Attempt(url, TRUE, TRUE, "present", GitClone(1, TRUE, TRUE, env))
             key == KeyAfterRun(first.rc)
         IN  CloneAfterFirst(first, url, key = "present", key, env)
    ELSE CloneOut("error", "Unknown auth_type", "stray", "none", <<>>)

\* The URLs, auth kinds, credentials and environments of a call.
CloneUrls == SeqsUpTo({"h", ":", "/"}, MaxUrl)
CloneAuthTypes == {"pat", "ssh", "token"}
CloneCredentials == {<<"k">>}
CloneEnvs == [branch_exists : BOOLEAN, cred_ok : BOOLEAN, raises : {0, 1, 2}]

\* The agent calls the tool clone_repository.
Clone(url, auth_type, credential, env) ==
    /\ fsCall = NoCall
    /\ fsCall' = [tool |-> "clone", url |-> url, auth_type |-> auth_type,
                  credential |-> credential, env |-> env,
                  out |-> clone_repository(url, auth_type, credential, env)]
    /\ UNCHANGED <<httpVars, repo, wire, countVars, pumpVars, q, futureDone, workerVars>>

NextClone ==
    \/ /\ fsCall = NoCall
       /\ \E url \in CloneUrls, auth_type \in CloneAuthTypes,
             credential \in CloneCredentials, env \in CloneEnvs :
              Clone(url, auth_type, credential, env)
    \/ ReadReturn

SpecClone == Init /\ [][NextClone]_vars

\* ------------------------------------------------------------ list files
\* A repository is the sequence of entries root.rglob("*") yields; an entry
\* has a kind, the components of its path relative to the root, and the
\* suffix of its last component.

skip_dirs ==
    {".git", "node_modules", "__pycache__", ".venv", "venv", "dist", "build",
     ".next", ".nuxt", "vendor", "target", "bin", "obj", ".gradle", ".mvn"}

skip_exts ==
    {".png", ".jpg", ".jpeg", ".gif", ".ico", ".svg", ".woff", ".woff2", ".ttf",
     ".eot", ".mp4", ".mp3", ".zip", ".tar", ".gz", ".lock"}

\* str.lower() on the suffixes that occur
Lower(x) == IF x = ".PNG" THEN ".png" ELSE x

Entry(kind, parts, suffix) == [kind |-> kind, parts |-> parts, suffix |-> suffix]

\* set(p.relative_to(root).parts): the file's own name is one of them
PartsOf(e) == {e.parts[i] : i \in 1..Len(e.parts)}

\* The entry is passed over: it is no file, one of its components is in
\* skip_dirs, or its lower-cased suffix is in skip_exts.
Skipped(e) ==
    \/ e.kind # "file"
    \/ PartsOf(e) \cap skip_dirs # {}
    \/ Lower(e.suffix) \in skip_exts

\* if len(files) >= max_files: break, tested after the append
ReachedLimit(files, max_files) == Len(files) >= max_files

RECURSIVE Walk(_, _, _)
\* The loop over rglob: rest is what is still to come, files what was taken.
Walk(rest, files, max_files) ==
    IF rest = <<>> THEN files
    ELSE IF Skipped(Head(rest)) THEN Walk(Tail(rest), files, max_files)
    ELSE IF ReachedLimit(Append(files, Head(rest)), max_files)
         THEN Append(files, Head(rest))
         ELSE Walk(Tail(rest), Append(files, Head(rest)), max_files)

\* list_repository_files(repo_path, max_files)
list_repository_files(entries, max_files) ==
    LET files == Walk(entries, <<>>, max_files)
    IN  [files |-> files, total |-> Len(files)]

\* Entries: two files that are listed, files under an excluded directory,
\* with an excluded suffix in either case, a file named like an excluded
\* directory, and a directory.
EntryKinds ==
    {Entry("file", <<"src", "a.py">>, ".py"),
     Entry("file", <<"README">>, ""),
     Entry("file", <<"node_modules", "x.js">>, ".js"),
     Entry("file", <<"img.PNG">>, ".PNG"),
     Entry("file", <<"b.lock">>, ".lock"),
     Entry("file", <<"build">>, ""),
     Entry("dir", <<"src">>, "")}

Repositories == SeqsUpTo(EntryKinds, MaxEntries)

\* The agent calls the tool list_files.
ListFiles(entries, max_files) ==
    /\ fsCall = NoCall
    /\ fsCall' = [tool |-> "list_files", entries |-> entries, max_files |-> max_files,
                  out |-> list_repository_files(entries, max_files)]
    /\ UNCHANGED <<httpVars, repo, wire, countVars, pumpVars, q, futureDone, workerVars>>

NextList ==
    \/ /\ fsCall = NoCall
       /\ \E entries \in Repositories, max_files \in 0..MaxFilesArg :
              ListFiles(entries, max_files)
    \/ ReadReturn

SpecList == Init /\ [][NextList]_vars

\* ------------------------------------------------------------ cleanup
\* The directory at repo_path: it is there or not, and each name in it is
\* absent, a file that can be deleted, or a file that cannot ("locked").

TreeNames == {"a", "b", "c", "d"}
EmptyTree == [n \in TreeNames |-> "absent"]
Trees == [TreeNames -> {"absent", "file", "locked"}]

\* An rmtree that leaves everything where it is.
Rmtree_Keeps(dir) == dir

\* shutil.rmtree(repo_path, ignore_errors=True): every error is passed over;
\* what can be deleted is deleted, and the directory itself when it is empty
\* then.  A missing directory is one more error passed over.
Rmtree(dir) ==
    IF ~dir.exists THEN dir
    ELSE LET left == [n \in TreeNames |-> IF dir.tree[n] = "locked" THEN "locked" ELSE "absent"]
         IN  [exists |-> left # EmptyTree, tree |-> left]

\* cleanup_repository(repo_path): rmtree does not raise, so the except
\* branch with status "error" is never taken.
cleanup_repository(dir) ==
    [fields |-> {"status", "path"}, status |-> "deleted", dir |-> Rmtree(dir)]

\* The directories a call may find: none, or one with any content.
Directories ==
    {[exists |-> FALSE, tree |-> EmptyTree]} \cup {[exists |-> TRUE, tree |-> t] : t \in Trees}

\* The agent calls the tool cleanup on a path.
Cleanup(dir) ==
    /\ fsCall = NoCall
    /\ fsCall' = [tool |-> "cleanup", before |-> dir, dir |-> cleanup_repository(dir).dir,
                  outs |-> <<cleanup_repository(dir)>>]
    /\ UNCHANGED <<httpVars, repo, wire, countVars, pumpVars, q, futureDone, workerVars>>

\* The agent calls cleanup on the same path once more.
CleanupAgain ==
    /\ fsCall.tool = "cleanup"
    /\ Len(fsCall.outs) = 1
    /\ fsCall' = [fsCall EXCEPT !.dir = cleanup_repository(fsCall.dir).dir,
                                !.outs = Append(@, cleanup_repository(fsCall.dir))]
    /\ UNCHANGED <<httpVars, repo, wire, countVars, pumpVars, q, futureDone, workerVars>>

NextCleanup ==
    \/ /\ fsCall = NoCall
       /\ \E dir \in Directories : Cleanup(dir)
    \/ CleanupAgain
    \/ ReadReturn

SpecCleanup == Init /\ [][NextCleanup]_vars

\* ------------------------------------------------------------ chat export
\* A message of the chat history; a line of the export, which is plain text
\* or the heading of a question.

Message(role, content) == [role |-> role, content |-> content]
TextLine(t) == <<"text", t>>
Heading(idx, question) == <<"heading", idx, question>>

\* i += 2, after a user message
NextIndex(history, i) == i + 2

RECURSIVE Pairs(_, _)
\* The while loop of format_chat_as_markdown from index i (1-based here).
Pairs(history, i) ==
    IF i > Len(history) THEN <<>>
    ELSE IF history[i].role = "user"
    THEN LET answer == IF i + 1 <= Len(history) /\ history[i + 1].role = "assistant"
                       THEN history[i + 1].content ELSE ""
         IN  <<(<<history[i].content, answer>>)>> \o Pairs(history, NextIndex(history, i))
    ELSE Pairs(history, i + 1)

RECURSIVE PairLines(_, _)
\* for idx, (q, a) in enumerate(pairs, 1): lines += ["---", f"## Q{idx}: {q}", "", a, ""]
PairLines(pairs, idx) ==
    IF idx > Len(pairs) THEN <<>>
    ELSE <<TextLine("---"), Heading(idx, pairs[idx][1]), TextLine(""),
           TextLine(pairs[idx][2]), TextLine("")>> \o PairLines(pairs, idx + 1)

\* format_chat_as_markdown(history, repo_url, branch): the lines joined by
\* the return statement.
format_chat_as_markdown(history, repo_url, branch) ==
    <<TextLine("# Repository Q&A"), TextLine("**Repository:** " \o repo_url),
      TextLine("**Branch:** " \o branch), TextLine("")>> \o PairLines(Pairs(history, 1), 1)

\* answer_text = final_answer or "".join(accumulated)
AnswerText(final_answer, accumulated) ==
    IF final_answer # None /\ final_answer[1] # "" THEN final_answer[1] ELSE Join(accumulated)

\* The questions a user asks, the done payloads and the chunks of a run.
Questions == {"p", "q"}
FinalAnswers == {None, Some(""), Some("d")}
Accumulated == {<<>>, <<"c">>}

\* One run of the script with a question: the user message is appended, the
\* stream is read, the assistant message is appended when the run gave a
\* text, and the download button is given the export of the history.
Ask(question, final_answer, accumulated) ==
    LET asked == Append(session.chat_history, Message("user", question))
        answer_text == AnswerText(final_answer, accumulated)
        history == IF answer_text # "" THEN Append(asked, Message("assistant", answer_text))
                   ELSE asked
    IN  /\ Len(SelectSeq(session.chat_history, LAMBDA m : m.role = "user")) < MaxQuestions
        /\ session' = [chat_history |-> history,
                       download |-> format_chat_as_markdown(history, "u", "main")]
        /\ UNCHANGED <<request, response, repo, wire, fsCall, countVars, pumpVars, q,
                       futureDone, workerVars>>

\* The button "Clear conversation": the history is emptied and the script
\* runs again, showing no download button.
ClearChat ==
    /\ session.chat_history # <<>>
    /\ session' = NoSession
    /\ UNCHANGED <<request, response, repo, wire, fsCall, countVars, pumpVars, q,
                   futureDone, workerVars>>

NextChat ==
    \/ \E question \in Questions, final_answer \in FinalAnswers, accumulated \in Accumulated :
           Ask(question, final_answer, accumulated)
    \/ ClearChat

SpecChat == Init /\ [][NextChat]_vars

\* ------------------------------------------------------------ HTTP endpoint
\* The text fields of a request body are sequences of characters.

Whitespace == {" ", "\t", "\n"}

RECURSIVE LStrip(_)
LStrip(t) == IF t # <<>> /\ Head(t) \in Whitespace THEN LStrip(Tail(t)) ELSE t

RECURSIVE RStrip(_)
RStrip(t) ==
    IF t # <<>> /\ t[Len(t)] \in Whitespace THEN RStrip(SubSeq(t, 1, Len(t) - 1)) ELSE t

\* str.strip()
Strip(t) == RStrip(LStrip(t))

\* The routes main.py registers for POST, and the generator each one runs.
PostRoutes == {"/analyze"}
RouteMode(path) == "analysis"

\* The system instruction each generator hands to _run_agent_sync.
SystemPromptOf(m) ==
    IF m = "analysis" THEN "ANALYSIS_SYSTEM_PROMPT" ELSE "CHAT_SYSTEM_PROMPT"

\* A validation that forgets the credential.
Validate_NoCredential(body) ==
    IF Strip(body.gitlab_url) = <<>> THEN "gitlab_url is required"
    ELSE IF body.auth_type \notin {"pat", "ssh"} THEN "auth_type must be 'pat' or 'ssh'"
    ELSE ""

\* The checks at the head of analyze(): the detail of the HTTPException
\* raised, or "" when the request passes.
Validate(body) ==
    IF Strip(body.gitlab_url) = <<>> THEN "gitlab_url is required"
    ELSE IF body.auth_type \notin {"pat", "ssh"} THEN "auth_type must be 'pat' or 'ssh'"
    ELSE IF Strip(body.credential) = <<>> THEN "credential is required"
    ELSE ""

\* The value of DEFAULT_MODEL_ID in the environment of the server process:
\* not set, set to the empty string, or set to a model identifier.
Environs == {None, Some(<<>>), Some(<<"e">>)}

\* The second argument of os.getenv("DEFAULT_MODEL_ID", ...).
FallbackModelId == <<"f">>

\* DEFAULT_MODEL_ID = os.getenv("DEFAULT_MODEL_ID", "anthropic..."): the
\* value of the variable when it is set, the empty string included.
DEFAULT_MODEL_ID(environ) == IF environ = None THEN FallbackModelId ELSE environ[1]

\* An effective model that keeps the padding of the request's model_id.
EffectiveModel_Unstripped(model_id, default) ==
    IF Strip(model_id) # <<>> THEN model_id ELSE default

\* effective_model = request.model_id.strip() or DEFAULT_MODEL_ID
EffectiveModel(model_id, default) ==
    IF Strip(model_id) # <<>> THEN Strip(model_id) ELSE default

\* The response to POST path: 404 for a path with no route; for /analyze the
\* HTTPException of a failed check, else the StreamingResponse.
\* model_id is the identifier handed to run_analysis.
Respond(path, body, default) ==
    IF path \notin PostRoutes THEN [status |-> "404", detail |-> "Not Found"]
    ELSE IF Validate(body) # "" THEN [status |-> "400", detail |-> Validate(body)]
    ELSE [status |-> "200", detail |-> "",
          model_id |-> EffectiveModel(body.model_id, default)]

\* A client posts body to path for run r, on a server started in environ.
Post(r, path, body, environ) ==
    /\ request[r] = NoRequest
    /\ pc[r] = "idle"
    /\ request' = [request EXCEPT ![r] =
           [path |-> path, gitlab_url |-> body.gitlab_url,
            auth_type |-> body.auth_type, credential |-> body.credential,
            model_id |-> body.model_id, environ |-> environ]]
    /\ response' = [response EXCEPT ![r] = Respond(path, body, DEFAULT_MODEL_ID(environ))]
    /\ UNCHANGED <<pumpVars, q, futureDone, workerVars, countVars, repo, wire, fsCall, session>>

\* The StreamingResponse starts iterating the generator of the route.
Serve(r) ==
    /\ response[r].status = "200"
    /\ Request(r, RouteMode(request[r].path))

\* The generator after its first frame.
Streaming(r) ==
    \/ Submit(r)
    \/ ResumeStarted(r)
    \/ ResumeDrainYield(r)
    \/ ResumeSleep(r)
    \/ ResumeFinalYield(r)
    \/ ResumeError(r)
    \/ ResumeDone(r)

\* Request bodies: blank, padded and plain URLs and credentials; the two
\* auth kinds and another string.
Urls == {<<>>, <<" ">>, <<"u">>, <<" ", "u", "\n">>}
AuthTypes == {"pat", "ssh", "token"}
Credentials == {<<>>, <<"\t">>, <<"k">>}
ModelIds == {<<>>, <<" ">>, <<"m">>, <<" ", "m", "\n">>}
Bodies ==
    [gitlab_url : Urls, auth_type : AuthTypes, credential : Credentials, model_id : ModelIds]

\* The paths the frontend posts to.
ClientPaths == {"/analyze", "/chat"}

NextHttp ==
    \/ /\ request["A"] = NoRequest
       /\ \E path \in ClientPaths, body \in Bodies, environ \in Environs :
              Post("A", path, body, environ)
    \/ Serve("A")
    \/ Streaming("A")
    \/ WorkerStep("A", {TextNote("a")}, MaxNotes, {"report"}, {"boom"})

SpecHttp == Init /\ [][NextHttp]_vars

\* ------------------------------------------------------------- properties

AgentKinds == {"chunk", "tool_use", "tool_result"}
TerminalKinds == {"done", "error"}

IsAgentFrame(f) == f.event \in AgentKinds
IsChunkFrame(f) == f.event = "chunk"

\* The chunk/tool_use/tool_result frames of run r's stream, in order.
AgentFrames(r) == SelectSeq(frames[r], IsAgentFrame)

\* The (event_type, data) tuples a sequence of frames carries.
AsEvents(fs) == [i \in 1..Len(fs) |-> <<fs[i].event, fs[i].data>>]

\* The payloads of the chunk frames of run r's stream, in order.
ChunkPayloads(r) ==
    LET cs == SelectSeq(frames[r], IsChunkFrame)
    IN [i \in 1..Len(cs) |-> cs[i].data]

\* The positions of the terminal frames in run r's stream.
TerminalAt(r) == {i \in 1..Len(frames[r]) : frames[r][i].event \in TerminalKinds}

\* The terminal frame has been yielded.
TerminalEmitted(r) == pc[r] \in {"error_yield", "done_yield", "closed"}

\* C1: at every moment of a run the agent frames yielded so far, followed by
\* the events still queued, are exactly the events the handler has put, in put
\* order; when the stream ends the agent frames are exactly the events put.
C1_OrderPreserved ==
    \A r \in Runs :
        /\ AsEvents(AgentFrames(r)) \o q[r] = enqueued[r]
        /\ pc[r] = "closed" => AsEvents(AgentFrames(r)) = enqueued[r]

C1_Witness ==
    /\ pc["A"] = "closed"
    /\ Len(enqueued["A"]) >= 3
    /\ enqueued["A"][1] # enqueued["A"][2]
    /\ enqueued["A"][2] # enqueued["A"][3]

\* C2: a stream never holds more than one terminal frame, a terminal frame is
\* the last frame of the stream, and a stream consumed to its end holds one.
C2_OneTerminalLast ==
    \A r \in Runs :
        /\ Cardinality(TerminalAt(r)) <= 1
        /\ TerminalAt(r) \subseteq {Len(frames[r])}
        /\ pc[r] = "closed" => Cardinality(TerminalAt(r)) = 1

C2_Witness ==
    /\ pc["A"] = "closed"
    /\ outcome["A"].kind = "raised"
    /\ AgentFrames("A") # <<>>

\* A notification of one of the three shapes the handler recognises.
Recognised(kw) ==
    \/ (kw.data # None /\ kw.data[1] # "")
    \/ (kw.current_tool_use.type = "dict" /\ kw.current_tool_use.keys # {}
        /\ ~kw.complete)
    \/ kw.tool_result_message # None

\* The stream of a finished run is two status frames, the agent frames, and
\* one done frame.
EndsWithOneDone(r) ==
    /\ Len(frames[r]) = 2 + Len(AgentFrames(r)) + 1
    /\ frames[r][Len(frames[r])].event = "done"
    /\ \A i \in 1..(Len(frames[r]) - 1) : frames[r][i].event # "done"

FinishedNormally(r) == pc[r] = "closed" /\ outcome[r].kind = "returned"

\* C3 as stated: after a run whose agent returned, the handler has put one
\* event per notification and the stream holds one agent frame per
\* notification, followed by one done frame.
C3_Original ==
    \A r \in Runs :
        FinishedNormally(r) =>
            /\ Len(enqueued[r]) = Len(delivered[r])
            /\ Len(AgentFrames(r)) = Len(delivered[r])
            /\ EndsWithOneDone(r)

\* C3 amended: the handler puts one event per notification of a recognised
\* shape and none for any other; after a run whose agent returned the stream
\* holds one agent frame per event put, in put order, then one done frame.
C3_Amended ==
    \A r \in Runs :
        /\ Len(enqueued[r]) = Len(SelectSeq(delivered[r], Recognised))
        /\ FinishedNormally(r) =>
            /\ AsEvents(AgentFrames(r)) = enqueued[r]
            /\ EndsWithOneDone(r)

C3_Witness ==
    /\ FinishedNormally("A")
    /\ Len(delivered["A"]) = 3
    /\ Len(enqueued["A"]) = 2
    /\ Len(AgentFrames("A")) = 2

\* C4: the payload of a done frame is the concatenation of the payloads of
\* the stream's chunk frames, in order, when there is one, and the string the
\* agent runner returned when there is none.
C4_DonePayload ==
    \A r \in Runs :
        \A i \in 1..Len(frames[r]) :
            frames[r][i].event = "done" =>
                frames[r][i].data =
                    IF ChunkPayloads(r) # <<>>
                    THEN Join(ChunkPayloads(r))
                    ELSE outcome[r].value

C4_Witness ==
    /\ pc["A"] = "closed"
    /\ ChunkPayloads("A") = <<"b", "a">>
    /\ Len(AgentFrames("A")) = 3
    /\ frames["A"][Len(frames["A"])] = sse("done", "ba")

\* The error frame of run r: the mode's prefix and the failure description.
ExpectedError(r) ==
    [event |-> "error",
     data |-> (IF mode[r] = "analysis" THEN "Analysis failed: " ELSE "Chat failed: ")
              \o outcome[r].value]

C5_State ==
    \A r \in Runs :
        outcome[r].kind = "raised" =>
            /\ \A i \in 1..Len(frames[r]) : frames[r][i].event # "done"
            /\ \A i \in 1..Len(frames[r]) :
                   frames[r][i].event = "error" =>
                       i = Len(frames[r]) /\ frames[r][i] = ExpectedError(r)
            /\ TerminalEmitted(r) =>
                   frames[r][Len(frames[r])] = ExpectedError(r)

C5_Step ==
    \A r \in Runs :
        (outcome[r].kind = "raised" /\ TerminalEmitted(r)) =>
            /\ frames'[r] = frames[r]
            /\ q'[r] = q[r]
            /\ pc'[r] \in {"closed", "cancelled"}

\* C5: when the agent runner raised, the stream holds no done frame, its only
\* error frame is its last frame and carries the failure description, and
\* once that frame is yielded the pump yields nothing more and does not touch
\* the queue again: it ends.
C5_ErrorStops == []C5_State /\ [][C5_Step]_vars

C5_Witness ==
    /\ pc["A"] = "closed"
    /\ outcome["A"].kind = "raised"
    /\ delivered["A"] # <<>>
    /\ frames["A"][Len(frames["A"])].event = "error"

\* C6: when the terminal frame has been yielded the runner has finished, the
\* queue is empty, and every event the handler put precedes the terminal
\* frame in the stream.
C6_DrainedBeforeTerminal ==
    \A r \in Runs :
        TerminalEmitted(r) =>
            /\ worker[r] = "finished"
            /\ q[r] = <<>>
            /\ AsEvents(AgentFrames(r)) = enqueued[r]
            /\ TerminalAt(r) = {Len(frames[r])}

\* The final drain has yielded the last queued event of a failed run.
C6_Witness ==
    /\ pc["A"] = "final_yield"
    /\ outcome["A"].kind = "raised"
    /\ q["A"] = <<>>
    /\ Len(AgentFrames("A")) >= 2

C7_State ==
    \A r \in Runs :
        /\ pc[r] = "drain_yield" => drained[r] + 1 <= BatchSize
        /\ AsEvents(AgentFrames(r)) \o q[r] = enqueued[r]
        /\ TerminalEmitted(r) => Len(AgentFrames(r)) = Len(delivered[r])

\* `drained` counts the frames of the current polling iteration: the frame
\* that opens an iteration is yielded with the counter at 0, every further
\* frame of the iteration with the counter one higher.
C7_Step ==
    \A r \in Runs :
        (pc'[r] = "drain_yield" /\ frames'[r] # frames[r]) =>
            /\ Len(frames'[r]) = Len(frames[r]) + 1
            /\ drained'[r] = IF pc[r] = "drain_yield" THEN drained[r] + 1 ELSE 0

\* C7: a polling iteration yields at most BatchSize frames before the pump
\* sleeps; however many events are queued, the frames yielded so far
\* followed by the events still queued are the events put, in put order, and
\* when the terminal frame is yielded every event has been yielded.
C7_BatchCap == []C7_State /\ [][C7_Step]_vars

\* The pump has taken the first of more than BatchSize events that were
\* queued at once.
C7_Witness ==
    /\ pc["A"] = "drain_yield"
    /\ drained["A"] = 0
    /\ Len(AgentFrames("A")) = 1
    /\ Len(q["A"]) + 1 > BatchSize

\* The payloads run r's own agent can put in r's stream.
OwnTokens(r) == IF r = "A" THEN {"a", "x"} ELSE {"b", "y"}
OwnResult(r) == IF r = "A" THEN "reportA" ELSE "reportB"

C8_State ==
    \A r \in Runs :
        /\ AsEvents(AgentFrames(r)) \o q[r] = enqueued[r]
        /\ Len(collected[r]) = Len(ChunkPayloads(r))
        /\ \A i \in 1..Len(frames[r]) :
               LET f == frames[r][i] IN
               /\ f.event \in AgentKinds => f.data \in OwnTokens(r)
               /\ f.event = "done" =>
                      f.data = IF ChunkPayloads(r) # <<>>
                               THEN Join(ChunkPayloads(r)) ELSE OwnResult(r)
               /\ f.event = "error" => f = ExpectedError(r)

\* A queue grows only by a put of its own run's handler and shrinks only by
\* a frame of its own run's pump.
C8_Step ==
    \A r \in Runs :
        /\ Len(q'[r]) > Len(q[r]) => delivered'[r] # delivered[r]
        /\ Len(q'[r]) < Len(q[r]) => frames'[r] # frames[r]
        /\ collected'[r] # collected[r] => frames'[r] # frames[r]

\* C8: with two runs in flight each queue is written only by its own run's
\* handler and read only by its own run's pump, and every frame of a stream,
\* the done payload included, comes from its own run's events and outcome.
C8_RunsIsolated == []C8_State /\ [][C8_Step]_vars

\* Both pumps are draining, each with events of its own still queued.
C8_Witness ==
    /\ pc["A"] = "drain_yield" /\ q["A"] # <<>>
    /\ pc["B"] = "drain_yield" /\ q["B"] # <<>>

\* The stream of run r is complete and ends as r's own outcome says.
OwnStreamComplete(r) ==
    /\ AsEvents(AgentFrames(r)) = enqueued[r]
    /\ frames[r][Len(frames[r])] =
           IF outcome[r].kind = "raised"
           THEN ExpectedError(r)
           ELSE sse("done", IF ChunkPayloads(r) # <<>>
                            THEN Join(ChunkPayloads(r)) ELSE outcome[r].value)

\* C9: whatever the other run's outcome, a run's pump is never blocked, an
\* error frame appears only in the stream of the run whose agent raised, and
\* a stream that ends holds all of its own run's events, in order, followed
\* by its own done or its own error.
C9_FailureIsolated ==
    \A r \in Runs :
        /\ pc[r] \in Suspended => ENABLED PumpStep(r, Modes)
        /\ \A i \in 1..Len(frames[r]) :
               frames[r][i].event = "error" =>
                   outcome[r].kind = "raised" /\ frames[r][i] = ExpectedError(r)
        /\ pc[r] = "closed" => OwnStreamComplete(r)

\* Run A ended with its error; run B ended with its events and its done.
C9_Witness ==
    /\ pc["A"] = "closed" /\ outcome["A"].kind = "raised"
    /\ pc["B"] = "closed" /\ outcome["B"].kind = "returned"
    /\ Len(AgentFrames("B")) = 2

\* C10: a stream ends only after its terminal frame, and a started run whose
\* client keeps consuming ends.
C10_EndsWithTerminal ==
    /\ [](\A r \in Runs :
            pc[r] = "closed" =>
                /\ frames[r] # <<>>
                /\ frames[r][Len(frames[r])].event \in TerminalKinds)
    /\ \A r \in {"A"} : (pc[r] # "idle") ~> (pc[r] = "closed")

C10_Witness ==
    /\ pc["A"] = "closed"
    /\ frames["A"][Len(frames["A"])].event = "done"
    /\ Len(AgentFrames("A")) >= 2

\* A text field that is empty once stripped of whitespace.
IsBlank(t) == \A i \in 1..Len(t) : t[i] \in {" ", "\t", "\n"}

InvalidRequest(req) ==
    \/ IsBlank(req.gitlab_url)
    \/ IsBlank(req.credential)
    \/ req.auth_type \notin {"pat", "ssh"}

\* No work has been done for run r.
NoWorkDone(r) ==
    /\ pc[r] = "idle"
    /\ frames[r] = <<>>
    /\ q[r] = <<>>
    /\ submissions[r] = 0
    /\ worker[r] = "none"

\* C11: a request with a blank URL, a blank credential or an auth kind other
\* than pat / ssh gets an HTTP error response (400 from /analyze), and no
\* frame is yielded, nothing is queued and no runner is submitted for it,
\* then or later.
C11_InvalidRejected ==
    \A r \in Runs :
        (request[r] # NoRequest /\ InvalidRequest(request[r])) =>
            /\ response[r].status \in {"400", "404"}
            /\ request[r].path = "/analyze" => response[r].status = "400"
            /\ NoWorkDone(r)

\* A request whose only fault is a whitespace credential was refused.
C11_Witness ==
    /\ request["A"] # NoRequest
    /\ request["A"].path = "/analyze"
    /\ request["A"].gitlab_url = <<" ", "u", "\n">>
    /\ request["A"].auth_type = "ssh"
    /\ request["A"].credential = <<"\t">>
    /\ response["A"] = [status |-> "400", detail |-> "credential is required"]

\* C12: a valid request to either path is answered with a stream, and the
\* run it starts uses the system instruction of its path: the Q&A
\* instruction for /chat, the full-report instruction for /analyze.
C12_BothRoutes ==
    \A r \in Runs :
        (request[r] # NoRequest /\ ~InvalidRequest(request[r])) =>
            /\ response[r].status = "200"
            /\ pc[r] # "idle" =>
                   SystemPromptOf(mode[r]) =
                       IF request[r].path = "/chat"
                       THEN "CHAT_SYSTEM_PROMPT" ELSE "ANALYSIS_SYSTEM_PROMPT"

\* While the pump is closed, the runner can still deliver: every
\* notification is accepted.
C13_State ==
    \A r \in Runs :
        (pc[r] = "cancelled" /\ worker[r] = "invoking"
            /\ Len(delivered[r]) < MaxNotes) =>
            \A kw \in Notes : ENABLED Notify(r, kw, MaxNotes)

\* The disconnect leaves the runner and the queue as they are; a closed pump
\* stays closed and yields nothing; a notification delivered after it is
\* enqueued as before and the runner goes on.
C13_Step ==
    \A r \in Runs :
        /\ (pc[r] # "cancelled" /\ pc'[r] = "cancelled") =>
               /\ pc[r] \in Suspended
               /\ UNCHANGED <<workerVars, q, futureDone, frames>>
        /\ pc[r] = "cancelled" =>
               /\ pc'[r] = "cancelled"
               /\ frames'[r] = frames[r]
               /\ delivered'[r] # delivered[r] =>
                      /\ worker'[r] = "invoking"
                      /\ outcome'[r] = outcome[r]
                      /\ q'[r] = q[r] \o StreamingHandler(delivered'[r][Len(delivered'[r])])

\* C13: when the client disconnects the pump yields no further frame, the
\* runner is not interrupted, its handler keeps enqueuing without error, and
\* a runner that was submitted runs to completion.
C13_ClientGone ==
    /\ []C13_State
    /\ [][C13_Step]_vars
    /\ \A r \in Runs : (pc[r] = "cancelled" /\ worker[r] # "none") ~> (worker[r] = "finished")

\* The client left after the second status frame; the agent then returned
\* normally with its events still queued.
C13_Witness ==
    /\ pc["A"] = "cancelled"
    /\ Len(frames["A"]) = 2
    /\ worker["A"] = "finished"
    /\ outcome["A"].kind = "returned"
    /\ Len(q["A"]) >= 2

\* C14: once a run is over (its runner has finished, after which no tool is
\* called), a directory its clone created has been deleted, however the run
\* ended and whether or not the consumer is still there.
C14_CleanedAtEnd ==
    \A r \in Runs : worker[r] = "finished" => repo[r] # "present"

\* The runs waiting in the executor's queue.
Waiting == {workQueue[i] : i \in 1..Len(workQueue)}

\* C15: at most MaxWorkers (4) runners execute at once, however many requests
\* there are; a submitted runner that is not yet running waits in the pool's
\* queue (it is neither dropped nor given a thread of its own), and the
\* oldest waiting runner can start as soon as fewer than MaxWorkers run.
C15_PoolBound ==
    /\ Cardinality(Busy) <= MaxWorkers
    /\ \A r \in Runs :
           /\ worker[r] = "queued" <=> r \in Waiting
           /\ submissions[r] > 0 => worker[r] # "none"
    /\ Cardinality(Waiting) = Len(workQueue)
    /\ Cardinality(Busy) = MaxWorkers => \A r \in Runs : ~ENABLED WorkerStart(r)
    /\ (workQueue # <<>> /\ Cardinality(Busy) < MaxWorkers) =>
           ENABLED WorkerStart(Head(workQueue))

\* Four runners execute and the fifth waits in the queue.
C15_Witness ==
    /\ Cardinality(Busy) = MaxWorkers
    /\ Len(workQueue) = 1
    /\ \E r \in Runs : worker[r] = "queued" /\ pc[r] = "status2"

\* No shape makes the handler raise; the agent can always make its next
\* call; no run has ended on an exception of the handler.
C16_State ==
    /\ \A kw \in Shapes : ~HandlerRaises(kw)
    /\ \A r \in Runs :
           /\ outcome[r].value # "AttributeError"
           /\ (worker[r] = "invoking" /\ Len(delivered[r]) < HandlerNotes) =>
                  \A kw \in Shapes : ENABLED Notify(r, kw, HandlerNotes)

\* A call of the handler returns: the runner is still inside agent(prompt)
\* with no outcome, and at most one event was put.
C16_Step ==
    \A r \in Runs :
        delivered'[r] # delivered[r] =>
            /\ worker'[r] = "invoking"
            /\ outcome'[r] = NoOutcome
            /\ Len(enqueued'[r]) \in {Len(enqueued[r]), Len(enqueued[r]) + 1}

\* C16: the handler never raises to the agent: for every notification shape,
\* malformed ones included, the call returns normally and the run goes on.
C16_HandlerNeverRaises == []C16_State /\ [][C16_Step]_vars

\* A truthy non-dict tool value was delivered, nothing was put for it, and
\* the agent went on to return normally.
C16_Witness ==
    /\ delivered["A"] = <<Kwargs(None, StrTool, FALSE, None)>>
    /\ enqueued["A"] = <<>>
    /\ outcome["A"].kind = "returned"

\* C17: the handler's put never blocks: the queue of a run is never full,
\* and a runner inside agent(prompt) can deliver any notification whatever
\* the pump is doing (yielding, sleeping, closed by a disconnect) and however
\* many events are still queued.
C17_PutNeverBlocks ==
    \A r \in Runs :
        /\ ~PutBlocks(q[r])
        /\ (worker[r] = "invoking" /\ Len(delivered[r]) < MaxNotes) =>
               \A kw \in Notes : ENABLED Notify(r, kw, MaxNotes)

\* The pump sleeps with two events already queued while the agent is about
\* to deliver its next notification.
C17_Witness ==
    /\ pc["A"] = "sleep"
    /\ Len(q["A"]) = 2
    /\ worker["A"] = "invoking"
    /\ Len(delivered["A"]) < MaxNotes

\* C18 as stated: a request that has got its terminal frame had its runner
\* submitted exactly once and its agent invoked exactly once.
C18_Original ==
    \A r \in Runs :
        TerminalEmitted(r) => submissions[r] = 1 /\ invocations[r] = 1

\* The runner is submitted at most once, and exactly once as soon as the
\* stream is past its first status frame; the agent is invoked at most once,
\* once whenever the runner got to agent(prompt), and not at all only when
\* building the model or the agent raised.
C18_State ==
    \A r \in Runs :
        /\ submissions[r] <= 1
        /\ invocations[r] <= submissions[r]
        /\ pc[r] \notin {"idle", "status1", "cancelled"} => submissions[r] = 1
        /\ worker[r] # "none" => submissions[r] = 1
        /\ worker[r] = "invoking" => invocations[r] = 1
        /\ outcome[r].kind = "returned" => invocations[r] = 1
        /\ delivered[r] # <<>> => invocations[r] = 1
        /\ (worker[r] = "finished" /\ invocations[r] = 0) => outcome[r].kind = "raised"
        /\ TerminalEmitted(r) => submissions[r] = 1

\* No retry: once the runner has failed, nothing is submitted or invoked
\* again, and the failure stays the outcome of the run.
C18_Step ==
    \A r \in Runs :
        outcome[r].kind = "raised" =>
            /\ submissions'[r] = submissions[r]
            /\ invocations'[r] = invocations[r]
            /\ outcome'[r] = outcome[r]
            /\ worker'[r] = "finished"

\* C18 (amended): per request the runner is submitted at most once (exactly
\* once when the stream is consumed past its first status frame), the agent
\* is invoked at most once (exactly once unless building the model or the
\* agent raised, in which case it is never invoked), and the pump never
\* resubmits after a failure.
C18_Amended == []C18_State /\ [][C18_Step]_vars

\* A run ended with an error frame although its agent was never invoked:
\* building the model raised.
C18_Witness ==
    /\ pc["A"] = "closed"
    /\ frames["A"][Len(frames["A"])].event = "error"
    /\ submissions["A"] = 1
    /\ invocations["A"] = 0

\* A frame's text: "data: ", then one line that json.loads reads as an
\* object of exactly the two members event and data, then a blank line.
WellFramed(f) ==
    LET t == SseText(f)
        body == SubSeq(t, Len(DataPrefix) + 1, Len(t) - 2)
    IN  /\ StartsWith(t, DataPrefix)
        /\ SubSeq(t, Len(t) - 1, Len(t)) = <<"\n", "\n">>
        /\ \A i \in 1..Len(body) : body[i] # "\n"
        /\ JsonLoads(body) =
               [ok |-> TRUE, value |-> <<<<EventKey, f.event>>, <<DataKey, f.data>>>>,
                rest |-> <<>>]

\* C19: every frame written is well framed, and the client reading the
\* response line by line recovers exactly the (event, data) pairs written, in
\* order, whatever the payloads hold (newlines, quotes, backslashes).
C19_RoundTrip ==
    wire.phase \in {"sent", "received"} =>
        /\ \A i \in 1..Len(wire.sent) : WellFramed(wire.sent[i])
        /\ wire.text = StreamText(wire.sent)
        /\ wire.phase = "received" =>
               wire.received =
                   [i \in 1..Len(wire.sent) |-> <<wire.sent[i].event, wire.sent[i].data>>]

\* A two-frame stream whose payloads hold a newline, a quote and a backslash
\* was read back.
C19_Witness ==
    /\ wire.phase = "received"
    /\ Len(wire.sent) = 2
    /\ wire.sent[1].data = <<"\n", "\"">>
    /\ wire.sent[2].data = <<"\\", "n">>
    /\ Len(wire.received) = 2

\* The file a relative path names lies outside the repository.
Escapes(rel) ==
    LET real == Resolve(JoinPath(RepoPath, rel))
    IN  ~(Len(real) >= 1 /\ real[1] = "r")

\* C20: a relative_path that resolves outside the repository gets the
\* 'Path traversal detected' error, which no other path gets, and nothing
\* was probed or read for it; every file read_file probes or reads lies
\* inside the repository.
C20_NoTraversal ==
    fsCall.tool = "read_file" =>
        /\ Escapes(fsCall.relative_path) <=> fsCall.out.result = "Path traversal detected"
        /\ Escapes(fsCall.relative_path) => fsCall.out.probed = {} /\ fsCall.out.read = {}
        /\ \A p \in fsCall.out.probed \cup fsCall.out.read : p # <<>> /\ p[1] = "r"

\* The file /o exists and was asked for as ../o: the call was refused.
C20_Witness ==
    /\ fsCall.tool = "read_file"
    /\ fsCall.relative_path = [abs |-> FALSE, parts |-> <<"..", "o">>]
    /\ fsCall.outside
    /\ fsCall.out.result = "Path traversal detected"
    /\ fsCall.out.probed = {} /\ fsCall.out.read = {}

\* C21: for a path inside the repository read_file returns 'File not found'
\* when nothing is there, 'Not a file' when what is there is no regular file,
\* content only for an existing regular file, and in every case returns a
\* value: it never raises.
C21_DistinctErrors ==
    (fsCall.tool = "read_file" /\ ~Escapes(fsCall.relative_path)) =>
        LET real == Resolve(JoinPath(RepoPath, fsCall.relative_path))
        IN  /\ fsCall.out.result \in {"File not found", "Not a file", "content", "read error"}
            /\ (real \notin Dirs \cup Files(fsCall.outside) /\ ~HitsLoop(real)) =>
                   fsCall.out.result = "File not found"
            /\ real \in Dirs => fsCall.out.result = "Not a file"
            /\ fsCall.out.result = "content" => real \in Files(fsCall.outside)

\* The number of lines of a text: one per newline, and one more for text
\* after the last newline.
LineCount(text) ==
    Cardinality({i \in 1..Len(text) : text[i] = "\n"})
        + (IF text # <<>> /\ text[Len(text)] # "\n" THEN 1 ELSE 0)

\* content is the first k lines of text joined by newlines: it begins the
\* text, holds k - 1 newlines (none and nothing else when k = 0), and stops
\* at the end of a line.
IsFirstLines(content, text, k) ==
    /\ StartsWith(text, content)
    /\ k = 0 => content = <<>>
    /\ k > 0 =>
           /\ Cardinality({i \in 1..Len(content) : content[i] = "\n"}) = k - 1
           /\ Len(content) = Len(text) \/ text[Len(content) + 1] = "\n"

\* C29: for max_lines >= 0 a successful read returns the first
\* min(total_lines, max_lines) lines joined by newlines, lines_shown equal to
\* that minimum, total_lines equal to the line count of the file, and
\* truncated exactly when total_lines > max_lines.
C29_Truncation ==
    fsCall.tool = "read_text" =>
        LET total == LineCount(fsCall.text)
            shown == IF total <= fsCall.max_lines THEN total ELSE fsCall.max_lines
        IN  /\ fsCall.body.total_lines = total
            /\ fsCall.body.lines_shown = shown
            /\ fsCall.body.truncated <=> total > fsCall.max_lines
            /\ IsFirstLines(fsCall.body.content, fsCall.text, shown)

\* A file of three lines, the second empty, read with max_lines 2.
C29_Witness ==
    /\ fsCall.tool = "read_text"
    /\ fsCall.text = <<"a", "\n", "\n", "a">>
    /\ fsCall.max_lines = 2
    /\ fsCall.body = [content |-> <<"a", "\n">>, lines_shown |-> 2,
                      total_lines |-> 3, truncated |-> TRUE]

\* url with oauth2:<credential>@ put in right after its first "://".
Injected(url, credential) ==
    LET i == CHOOSE i \in SepAt(url) : \A j \in SepAt(url) : i <= j
    IN  SubSeq(url, 1, i + 2) \o <<"o", "a", "u", "t", "h", "2", ":">> \o credential
            \o <<"@">> \o SubSeq(url, i + 3, Len(url))

\* C22: with auth kind pat, every run of git gets the URL with
\* oauth2:<credential>@ inserted immediately after the first "://", and a
\* successful call returns only repo_path, whose value is the new directory
\* and not the credential.
C22_PatUrl ==
    (fsCall.tool = "clone" /\ fsCall.auth_type = "pat") =>
        /\ HasSep(fsCall.url) <=> fsCall.out.attempts # <<>>
        /\ \A k \in 1..Len(fsCall.out.attempts) :
               fsCall.out.attempts[k].url = Injected(fsCall.url, fsCall.credential)
        /\ (\E k \in 1..Len(fsCall.out.attempts) : fsCall.out.attempts[k].rc = "0") =>
               /\ fsCall.out.fields = {"repo_path"}
               /\ fsCall.out.value = Dest
               /\ fsCall.out.value # fsCall.credential

\* A URL with two "://" was cloned at the first attempt.
C22_Witness ==
    /\ fsCall.tool = "clone"
    /\ fsCall.auth_type = "pat"
    /\ fsCall.url = <<":", "/", "/", ":", "/", "/">>
    /\ Len(fsCall.out.attempts) = 1
    /\ fsCall.out.fields = {"repo_path"}

\* C23: with auth kind ssh, the key file is there while git runs first and is
\* gone when the call returns, whether git succeeded, exited non-zero or
\* could not be run.
C23_KeyDeleted ==
    (fsCall.tool = "clone" /\ fsCall.auth_type = "ssh") =>
        /\ fsCall.out.key = "absent"
        /\ fsCall.out.attempts # <<>>
        /\ fsCall.out.attempts[1].authed

\* git could not be run at the first attempt of an SSH clone.
C23_Witness ==
    /\ fsCall.tool = "clone"
    /\ fsCall.auth_type = "ssh"
    /\ fsCall.out.attempts[1].rc = "raised"
    /\ fsCall.out.key = "absent"
    /\ fsCall.out.fields = {"error"}

\* C24: for pat and ssh alike, when the clone of the named branch exits
\* non-zero exactly one more attempt is made, without the branch and with
\* the same authentication; the result is repo_path when an attempt
\* succeeded and error when none did; a successful first attempt is the
\* only one.
C24_BranchFallback ==
    (fsCall.tool = "clone" /\ fsCall.out.attempts # <<>>) =>
        LET a == fsCall.out.attempts
        IN  /\ a[1].branch
            /\ Len(a) = IF a[1].rc = "128" THEN 2 ELSE 1
            /\ Len(a) = 2 =>
                   /\ ~a[2].branch
                   /\ a[2].authed = a[1].authed
                   /\ a[2].url = a[1].url
            /\ fsCall.out.fields =
                   IF \E k \in 1..Len(a) : a[k].rc = "0" THEN {"repo_path"} ELSE {"error"}

\* C25: list_files returns at most max_files paths, for every max_files >= 0
\* and every repository; no returned path has a component in the excluded
\* directory set or a suffix in the excluded extension set; total is the
\* number of paths returned.
C25_ListCapped ==
    fsCall.tool = "list_files" =>
        /\ Len(fsCall.out.files) <= fsCall.max_files
        /\ \A i \in 1..Len(fsCall.out.files) :
               /\ PartsOf(fsCall.out.files[i]) \cap skip_dirs = {}
               /\ fsCall.out.files[i].suffix \notin skip_exts
        /\ fsCall.out.total = Len(fsCall.out.files)

\* C26 as stated: every call of cleanup returns a status, and after the
\* second call on a path the path is absent.
C26_Original ==
    fsCall.tool = "cleanup" =>
        /\ \A i \in 1..Len(fsCall.outs) : "status" \in fsCall.outs[i].fields
        /\ Len(fsCall.outs) = 2 => ~fsCall.dir.exists

\* C26 (amended): cleanup never raises and returns a status for a path that
\* exists, is missing, was already deleted or cannot be deleted; after a call
\* nothing deletable is left and the path is absent unless it holds something
\* that cannot be deleted; a second call returns a status too and leaves the
\* path as the first call left it.
C26_Amended ==
    fsCall.tool = "cleanup" =>
        /\ \A i \in 1..Len(fsCall.outs) :
               /\ "status" \in fsCall.outs[i].fields
               /\ fsCall.outs[i].status \in {"deleted", "error"}
        /\ \A n \in TreeNames : fsCall.dir.tree[n] # "file"
        /\ fsCall.dir.exists <=> \E n \in TreeNames : fsCall.before.tree[n] = "locked"
        /\ Len(fsCall.outs) = 2 => fsCall.outs[2].dir = fsCall.outs[1].dir

\* A directory of deletable files was cleaned up twice.
C26_Witness ==
    /\ fsCall.tool = "cleanup"
    /\ fsCall.before = [exists |-> TRUE, tree |-> [n \in TreeNames |-> "file"]]
    /\ Len(fsCall.outs) = 2
    /\ ~fsCall.dir.exists

\* The event kinds and payloads a notification is to yield, by priority;
\* dictTool says which tool values count as a tool invocation.  A payload of
\* "" stands for a payload left open.
HasToken(kw) == kw.data # None /\ kw.data[1] # ""
NameOrDefault(t) == IF "name" \in t.keys THEN t.name ELSE "tool"

Classified(kw, dictTool) ==
    IF HasToken(kw) THEN <<"chunk", kw.data[1]>>
    ELSE IF dictTool /\ ~kw.complete
         THEN <<"tool_use", "Running tool: " \o NameOrDefault(kw.current_tool_use)>>
         ELSE IF kw.tool_result_message # None THEN <<"tool_result", "">>
              ELSE <<"nothing", "">>

\* The events put by one call are those of the classification c.
PutAs(put, c) ==
    IF c[1] = "nothing" THEN put = <<>>
    ELSE /\ Len(put) = 1
         /\ put[1][1] = c[1]
         /\ c[1] # "tool_result" => put[1][2] = c[2]

\* The events put by the call that delivered the last notification of run r.
LastPut(r) == SubSeq(enqueued'[r], Len(enqueued[r]) + 1, Len(enqueued'[r]))
LastNote(r) == delivered'[r][Len(delivered'[r])]

\* C28 as stated: every dict-valued current_tool_use with complete falsy and
\* no text token yields tool_use.
C28_Original ==
    [][\A r \in Runs :
          delivered'[r] # delivered[r] =>
              PutAs(LastPut(r),
                    Classified(LastNote(r), LastNote(r).current_tool_use.type = "dict"))]_vars

\* C28 (amended): the handler classifies each notification by fixed priority
\* and puts at most one event: a non-empty text token yields chunk with that
\* token, whatever the tool fields; otherwise a non-empty dict
\* current_tool_use with complete falsy yields tool_use with
\* "Running tool: <name>", the name defaulting to "tool"; otherwise a
\* non-null tool_result_message yields tool_result; otherwise, an empty
\* token alone and an empty dict alone included, nothing is put.
C28_Amended ==
    [][\A r \in Runs :
          delivered'[r] # delivered[r] =>
              PutAs(LastPut(r),
                    Classified(LastNote(r),
                               /\ LastNote(r).current_tool_use.type = "dict"
                               /\ LastNote(r).current_tool_use.keys # {}))]_vars

\* A notification carrying a token, a starting tool and a tool result was
\* delivered, and the one event put for it is the chunk.
C28_Witness ==
    /\ delivered["A"] =
           <<Kwargs(Some("a"), DictTool({"name", "input"}, "read_file"), FALSE, Some("result"))>>
    /\ enqueued["A"] = <<Event("chunk", "a")>>

\* The pump of run r is about to poll an empty queue while its future is
\* not done.
PollsEmpty(r) ==
    /\ pc[r] \in {"status2", "sleep", "drain_yield"}
    /\ q[r] = <<>>
    /\ ~futureDone[r]

\* Such a pump can be resumed at once, and so can every other suspended pump.
C27_State ==
    \A r \in PairRuns :
        PollsEmpty(r) =>
            /\ ENABLED PumpStep(r, {ModeOf(r)})
            /\ \A o \in PairRuns \ {r} :
                   pc[o] \in Suspended => ENABLED PumpStep(o, {ModeOf(o)})

\* Resumed on an empty queue, the pump yields no frame and goes to sleep.
C27_Step ==
    \A r \in PairRuns :
        (PollsEmpty(r) /\ pc'[r] # pc[r]) =>
            /\ pc'[r] = "sleep"
            /\ frames'[r] = frames[r]
            /\ q'[r] = q[r]

\* C27: the pump never waits on the queue: when the queue is empty while the
\* agent is still running, the pump stops draining and sleeps, giving control
\* back to the event loop, so the pump of a concurrent run can go on while
\* the agent of this run is silent.
C27_PumpNeverBlocks == []C27_State /\ [][C27_Step]_vars

\* Run A sleeps on an empty queue, its agent having delivered nothing yet,
\* while run B has streamed an agent frame.
C27_Witness ==
    /\ pc["A"] = "sleep"
    /\ worker["A"] = "invoking"
    /\ delivered["A"] = <<>>
    /\ q["A"] = <<>>
    /\ Len(AgentFrames("B")) >= 1

\* The six kinds of frame.
FrameKinds == {"status"} \cup AgentKinds \cup TerminalKinds

\* The generator of run r ran to its end (the client did not leave).
RanToEnd(r) == pc[r] = "closed"

\* C30: the stream of every run has the shape: two status frames first, the
\* second only after the runner was submitted to the pool; then zero or more
\* chunk, tool_use and tool_result frames; then one terminal frame, which a
\* run that ran to its end has; no status frame after the second; every kind
\* is one of the six.
C30_StreamShape ==
    \A r \in Runs :
        LET fs == frames[r] IN
        /\ \A i \in 1..Len(fs) :
               /\ fs[i].event \in FrameKinds
               /\ fs[i].event = "status" <=> i <= 2
               /\ fs[i].event \in TerminalKinds => i = Len(fs)
        /\ Len(fs) >= 2 => submissions[r] >= 1
        /\ pc[r] = "status1" => (Len(fs) = 1 /\ submissions[r] = 0)
        /\ RanToEnd(r) => (Len(fs) >= 3 /\ fs[Len(fs)].event \in TerminalKinds)

\* A run ran to its end with a stream of two status frames, a tool_use
\* frame, a chunk frame and a done frame.
C30_Witness ==
    /\ RanToEnd("A")
    /\ [i \in 1..Len(frames["A"]) |-> frames["A"][i].event] =
           <<"status", "status", "tool_use", "chunk", "done">>

\* C31: with auth kind ssh, the key file is there during every run of git
\* whose GIT_SSH_COMMAND names it, the retry without the branch included.
C31_KeyDuringGit ==
    (fsCall.tool = "clone" /\ fsCall.auth_type = "ssh") =>
        \A k \in 1..Len(fsCall.out.attempts) : fsCall.out.attempts[k].key = "present"

\* C32: when clone returns an error the directory it made is removed; the
\* directory is left on disk only when repo_path is returned.
C32_DestRemoved ==
    fsCall.tool = "clone" =>
        /\ fsCall.out.fields = {"error"} => fsCall.out.dest = "removed"
        /\ fsCall.out.dest # "removed" => fsCall.out.fields = {"repo_path"}

\* m is x without its leading and trailing whitespace, and is not empty.
IsStripOf(m, x) ==
    \E i \in 1..Len(x), j \in 1..Len(x) :
        /\ i <= j
        /\ m = SubSeq(x, i, j)
        /\ x[i] \notin Whitespace
        /\ x[j] \notin Whitespace
        /\ \A k \in 1..Len(x) : (k < i \/ k > j) => x[k] \in Whitespace

AllWhitespace(x) == \A k \in 1..Len(x) : x[k] \in Whitespace

\* The run of request r was started.
RunStarted(r) == request[r] # NoRequest /\ pc[r] # "idle"

\* The model identifier is the stripped model_id of the request when that
\* is not empty, and the default of the server otherwise.
StrippedOrDefault(r) ==
    /\ ~AllWhitespace(request[r].model_id) =>
           IsStripOf(response[r].model_id, request[r].model_id)
    /\ AllWhitespace(request[r].model_id) =>
           response[r].model_id =
               IF request[r].environ = None THEN FallbackModelId
               ELSE request[r].environ[1]

\* C33 as stated: the model identifier of a started run is the stripped
\* model_id or the server default, and is never empty.
C33_Original ==
    \A r \in Runs :
        RunStarted(r) => (StrippedOrDefault(r) /\ response[r].model_id # <<>>)

\* C33 (amended): the model identifier passed to the agent runner is the
\* request's model_id with surrounding whitespace stripped when that is
\* non-empty, and the server default model otherwise; it is empty only when
\* the request names no model and DEFAULT_MODEL_ID is set to the empty
\* string in the environment of the server.
C33_Amended ==
    \A r \in Runs :
        RunStarted(r) =>
            /\ StrippedOrDefault(r)
            /\ response[r].model_id = <<>> =>
                   (AllWhitespace(request[r].model_id) /\ request[r].environ = Some(<<>>))

\* A run was submitted to the pool with the padded model_id of its request
\* stripped.
C33_Witness ==
    /\ request["A"] # NoRequest
    /\ request["A"].model_id = <<" ", "m", "\n">>
    /\ response["A"].status = "200"
    /\ response["A"].model_id = <<"m">>
    /\ submissions["A"] = 1

\* What a run has been fed and where its pump and its runner are: the
\* events of the handler, the outcome of the agent and the interleaving of
\* pump and runner so far, as far as they bear on what comes next.
Local(r) ==
    <<pc[r], q[r], futureDone[r], drained[r], collected[r], worker[r], outcome[r],
      delivered[r], enqueued[r]>>

\* Two frames are the same except for the text of a status frame and the
\* prefix of an error description.
SameFrame(fa, fb, a, b) ==
    /\ fa.event = fb.event
    /\ IF fa.event = "status" THEN TRUE
       ELSE IF fa.event = "error"
       THEN /\ fa.data = ErrorPrefix(mode[a]) \o outcome[a].value
            /\ fb.data = ErrorPrefix(mode[b]) \o outcome[b].value
            /\ outcome[a].value = outcome[b].value
       ELSE fa.data = fb.data

SameFrames(a, b) ==
    /\ Len(frames[a]) = Len(frames[b])
    /\ \A i \in 1..Len(frames[a]) : SameFrame(frames[a][i], frames[b][i], a, b)

\* The steps of the pump of run r, one by one.
PumpEnabled(r) ==
    <<ENABLED Submit(r), ENABLED ResumeStarted(r), ENABLED ResumeDrainYield(r),
      ENABLED ResumeSleep(r), ENABLED ResumeFinalYield(r), ENABLED ResumeError(r),
      ENABLED ResumeDone(r)>>

UserPositions(h) == {i \in 1..Len(h) : h[i].role = "user"}
NthUser(h, k) ==
    CHOOSE i \in UserPositions(h) : Cardinality({j \in UserPositions(h) : j <= i}) = k
AnswerAfter(h, i) ==
    IF i + 1 <= Len(h) /\ h[i + 1].role = "assistant" THEN h[i + 1].content ELSE ""

IsHeading(line) == line[1] = "heading"

\* C35: for every chat history the frontend can produce, the export holds
\* every user question once, in order, each with the assistant answer that
\* follows it at once, or with an empty answer when none does.
C35_ExportComplete ==
    session.chat_history # <<>> =>
        LET h == session.chat_history
            n == Cardinality(UserPositions(h))
            x == session.download
        IN  /\ Len(SelectSeq(x, IsHeading)) = n
            /\ Len(x) = 4 + 5 * n
            /\ \A k \in 1..n :
                   /\ x[4 + 5 * (k - 1) + 2] = Heading(k, h[NthUser(h, k)].content)
                   /\ x[4 + 5 * (k - 1) + 4] = TextLine(AnswerAfter(h, NthUser(h, k)))

====
